---- MODULE Spec2Model ----
(***************************************************************************)
(* VectorBloom geometry generation (src/src/vector-bloom.js): the Path and *)
(* Node ring, compilePathData, createPetals / createPetal, createCenter /  *)
(* createCenterShape and getRadialNode, as a state machine whose steps are *)
(* the iterations of the two generation loops.                             *)
(* SpecFlower is the VectorBloom object itself: the constructor with       *)
(* FillDefaults, createElements, drawSVG, the highlighting methods, and    *)
(* updateDrawingSize of the built module (src/dist/vector-bloom.module.js),*)
(* each method call one step.                                              *)
(*                                                                         *)
(* Numbers are exact: a JavaScript number is modelled as (a + b*sqrt(m)) / *)
(* den, NaN or +-Infinity; rounding of IEEE doubles is not modelled.       *)
(* Trigonometry is not evaluated: a point is kept as the sum of the polar  *)
(* vectors (angle, distance) the code adds up to obtain it.                *)
(***************************************************************************)
EXTENDS Integers, Sequences, FiniteSets, TLC

(***************************************************************************)
(* Bounds of the explored inputs.                                          *)
(***************************************************************************)
MaxCount == 4
MaxRadiusUnits == 1
MaxDensity == 3

\* occupancy range values are RangeDen-ths, ages and balance are tenths
RangeDen == 2 * 2
Tenths == 2 * 5

(***************************************************************************)
(* Exact numbers.                                                          *)
(***************************************************************************)
Abs(x) == IF x < 0 THEN -x ELSE x

Sign(x) == IF x < 0 THEN -1 ELSE IF x > 0 THEN 1 ELSE 0

RECURSIVE Gcd(_, _)
Gcd(x, y) == IF y = 0 THEN x ELSE Gcd(y, x % y)

Isqrt(m) == CHOOSE s \in 0..m : s * s <= m /\ (s + 1) * (s + 1) > m

\* the finite number (a + b*sqrt(m)) / den in lowest terms, den # 0
Lowest(a, b, m, den, g) ==
    [k |-> "fin", a |-> a \div g, b |-> b \div g, m |-> IF b = 0 THEN 0 ELSE m,
     den |-> den \div g]

Reduced(a, b, m, den) ==
    Lowest(a, b, m, den, Sign(den) * Gcd(Gcd(Abs(a), Abs(b)), Abs(den)))

Rooted(a, b, m, den, s) ==
    IF s * s = m THEN Reduced(a + b * s, 0, m, den) ELSE Reduced(a, b, m, den)

Fin(a, b, m, den) == Rooted(a, b, m, den, Isqrt(m))

NaN == [k |-> "nan", a |-> 0, b |-> 0, m |-> 0, den |-> 1]

Infinity(s) == [k |-> "inf", a |-> s, b |-> 0, m |-> 0, den |-> 1]

Rat(p, q) == Fin(p, 0, 0, q)

Zero == Rat(0, 1)

IsNaN(x) == x.k = "nan"

IsFinite(x) == x.k = "fin"

IsZero(x) == x.k = "fin" /\ x.a = 0 /\ x.b = 0

\* sign of a finite or infinite number
NumSign(x) ==
    IF x.k = "inf" THEN x.a
    ELSE IF x.b = 0 THEN Sign(x.a)
    ELSE IF x.a = 0 THEN Sign(x.b)
    ELSE IF Sign(x.a) = Sign(x.b) THEN Sign(x.a)
    ELSE IF x.a * x.a > x.b * x.b * x.m THEN Sign(x.a) ELSE Sign(x.b)

\* JavaScript truthiness of a number: 0 and NaN are falsy
Truthy(x) == ~IsNaN(x) /\ ~IsZero(x)

NumNeg(x) ==
    IF x.k = "nan" THEN NaN
    ELSE IF x.k = "inf" THEN Infinity(-x.a)
    ELSE Fin(-x.a, -x.b, x.m, x.den)

NumAdd(x, y) ==
    IF x.k = "nan" \/ y.k = "nan" THEN NaN
    ELSE IF x.k = "inf" /\ y.k = "inf" THEN (IF x.a = y.a THEN x ELSE NaN)
    ELSE IF x.k = "inf" THEN x
    ELSE IF y.k = "inf" THEN y
    ELSE Fin(x.a * y.den + y.a * x.den, x.b * y.den + y.b * x.den,
             IF x.b # 0 THEN x.m ELSE y.m, x.den * y.den)

NumSub(x, y) == NumAdd(x, NumNeg(y))

NumMul(x, y) ==
    IF x.k = "nan" \/ y.k = "nan" THEN NaN
    ELSE IF x.k = "inf" \/ y.k = "inf"
         THEN (IF IsZero(x) \/ IsZero(y) THEN NaN ELSE Infinity(NumSign(x) * NumSign(y)))
    ELSE Fin(x.a * y.a + x.b * y.b * (IF x.b # 0 THEN x.m ELSE y.m),
             x.a * y.b + x.b * y.a, IF x.b # 0 THEN x.m ELSE y.m, x.den * y.den)

NumDiv(x, y) ==
    IF x.k = "nan" \/ y.k = "nan" THEN NaN
    ELSE IF y.k = "inf" THEN (IF x.k = "inf" THEN NaN ELSE Zero)
    ELSE IF IsZero(y) THEN (IF IsZero(x) THEN NaN ELSE Infinity(NumSign(x)))
    ELSE IF x.k = "inf" THEN Infinity(x.a * NumSign(y))
    ELSE \* 1/y = den * (a - b*sqrt(m)) / (a^2 - b^2 m)
         NumMul(x, Fin(y.den * y.a, -(y.den * y.b), y.m, y.a * y.a - y.b * y.b * y.m))

\* the square of a number with a = 0 or b = 0, as a pair <<numerator, denominator>>
SquareOf(x) == <<x.a * x.a + x.b * x.b * x.m, x.den * x.den>>

SignedSquareLt(sx, qx, sy, qy) ==
    IF sx # sy THEN sx < sy
    ELSE IF sx > 0 THEN qx[1] * qy[2] < qy[1] * qx[2]
    ELSE IF sx < 0 THEN qx[1] * qy[2] > qy[1] * qx[2]
    ELSE FALSE

NumLt(x, y) ==
    IF x.k = "nan" \/ y.k = "nan" THEN FALSE
    ELSE IF x.k = "inf" \/ y.k = "inf"
         THEN (IF x.k = "inf" /\ y.k = "inf" THEN x.a < y.a
               ELSE IF x.k = "inf" THEN x.a < 0 ELSE y.a > 0)
    ELSE IF x.b # 0 /\ y.b # 0 /\ x.m # y.m
         THEN \* two square roots of different radicands: compare the squares
              SignedSquareLt(NumSign(x), SquareOf(x), NumSign(y), SquareOf(y))
    ELSE NumSign(NumSub(x, y)) < 0

NumLe(x, y) == ~IsNaN(x) /\ ~IsNaN(y) /\ ~NumLt(y, x)

NumMin(x, y) ==
    IF x.k = "nan" \/ y.k = "nan" THEN NaN ELSE IF NumLt(y, x) THEN y ELSE x

NumMax(x, y) ==
    IF x.k = "nan" \/ y.k = "nan" THEN NaN ELSE IF NumLt(x, y) THEN y ELSE x

\* Math.sqrt of a rational number
NumSqrt(x) ==
    IF x.k = "nan" THEN NaN
    ELSE IF x.k = "inf" THEN (IF x.a > 0 THEN x ELSE NaN)
    ELSE IF x.a < 0 THEN NaN
    ELSE Fin(0, 1, x.a * x.den, x.den)

(***************************************************************************)
(* Angles and points.  An angle is g*GOLDEN_RADIANS + u*(PI/HalfTurn): g a *)
(* number, u an integer count of units of which HalfTurn make PI.  An      *)
(* amount is v + pi*PI (a length times an angle in radians is such an      *)
(* amount).  A point is (x, y) plus the sum of its polar terms, the term   *)
(* (angle, amount) standing for (sin(angle)*amount, cos(angle)*amount).    *)
(***************************************************************************)
HalfTurn == 14 * 180

Angle(g, u) == [g |-> g, u |-> u]

Turn(a, units) == [a EXCEPT !.u = @ + units]

Amount(v, pi) == [v |-> v, pi |-> pi]

Plain(v) == Amount(v, Zero)

AmountIsNaN(s) == IsNaN(s.v) \/ IsNaN(s.pi)

AmountIsZero(s) == IsZero(s.v) /\ IsZero(s.pi)

AmountTruthy(s) == ~AmountIsNaN(s) /\ ~AmountIsZero(s)

AmountScale(s, f) == Amount(NumMul(s.v, f), NumMul(s.pi, f))

AmountAdd(s, t) == Amount(NumAdd(s.v, t.v), NumAdd(s.pi, t.pi))

\* (p/q) * Math.PI / 180, in units
ToRadian(p, q) == (p * HalfTurn) \div (180 * q)

\* new VectorBloomPoint(x, y)
VectorBloomPoint(x, y) == [x |-> x, y |-> y, terms |-> <<>>, tangent |-> <<>>]

NaNPoint == VectorBloomPoint(NaN, NaN)

Origin == VectorBloomPoint(Zero, Zero)

\* point + (sin(angle)*amount, cos(angle)*amount)
PointPlusPolar(point, angle, amount) ==
    [point EXCEPT !.terms = Append(@, [angle |-> angle, d |-> amount])]

Null == 0
Undefined == -1

\* new VectorBloomNode(x, y): both control points start at the position
VectorBloomNode(position) ==
    [position |-> position, curveTo |-> Null,
     controlPoint1 |-> position, controlPoint2 |-> position]

(***************************************************************************)
(* VectorBloomPath.  The compiled string is a sequence of tokens: "M",     *)
(* "C", "Z" and one "pt" token per printed point.  curveTo is the index of *)
(* the node referred to in the path's node list.                           *)
(***************************************************************************)
Tok(t, p) == [t |-> t, p |-> p]

Cmd(t) == Tok(t, Origin)

\* writeData(node): three points, or a TypeError when curveTo is no node
writeData(nodes, i) ==
    IF nodes[i].curveTo \in 1..Len(nodes)
    THEN << Tok("pt", nodes[i].controlPoint2),
            Tok("pt", nodes[nodes[i].curveTo].controlPoint1),
            Tok("pt", nodes[nodes[i].curveTo].position) >>
    ELSE << Cmd("TypeError") >>

RECURSIVE writeAll(_, _, _)
writeAll(nodes, i, target) ==
    IF i > target THEN <<>> ELSE writeData(nodes, i) \o writeAll(nodes, i + 1, target)

\* the string without the segment that leads back to the first node
pathStringOpen(nodes) ==
    << Cmd("M"), Tok("pt", nodes[1].position), Cmd("C") >>
    \o writeAll(nodes, 1, Len(nodes) - 1)
    \o << Cmd("Z") >>

\* the pathString compilePathData builds and sets as the element's d attribute
pathString(nodes) ==
    << Cmd("M"), Tok("pt", nodes[1].position), Cmd("C") >>
    \o writeAll(nodes, 1, Len(nodes) - 1)
    \o writeData(nodes, Len(nodes))
    \o << Cmd("Z") >>

\* what compilePathData() returns: it has no return statement
compilePathDataResult(nodes) == [defined |-> FALSE, value |-> <<>>]

\* path.compilePathData(): the element's d attribute is rewritten
compilePathData(path) == [path EXCEPT !.d = pathString(path.nodes)]

\* the curveTo links the constructor sets: the successor, the last to the first
\* this.nodes.forEach((node, index) => node.curveTo = this.nodes[index + 1])
chainNodes(nodes) ==
    [j \in 1..Len(nodes) |->
       [nodes[j] EXCEPT !.curveTo = IF j + 1 <= Len(nodes) THEN j + 1 ELSE Undefined]]

\* the last node linked to itself instead of to the first
closeRingOnLast(nodes) == [nodes EXCEPT ![Len(nodes)].curveTo = Len(nodes)]

\* this.nodes[this.nodes.length - 1].curveTo = this.nodes[0]
closeRing(nodes) == [nodes EXCEPT ![Len(nodes)].curveTo = 1]

\* the curveTo links the constructor sets: the successor, the last to the first
wireNodes(nodes) == closeRing(chainNodes(nodes))

\* this.pathData = this.compilePathData()
compiledPath(wired) ==
    [nodes |-> wired, d |-> pathString(wired), pathData |-> compilePathDataResult(wired)]

\* new VectorBloomPath(nodes)
VectorBloomPath(nodes) == compiledPath(wireNodes(nodes))

(***************************************************************************)
(* getRadialNode(angle, distance, position, smoothing)                     *)
(***************************************************************************)
\* makePerpendicular of (node position - position), scaled by f: the unit
\* vector along angle (against it for a negative distance) turned by a
\* quarter turn; NaN when the vector has no direction
PerpendicularOffset(point, angle, distance, f) ==
    IF ~IsNaN(point.x) /\ ~IsNaN(point.y) /\ IsFinite(distance.v) /\ IsZero(distance.pi) /\ ~IsZero(distance.v)
    THEN PointPlusPolar(point, Turn(angle, -(HalfTurn \div 2)),
                        AmountScale(f, Rat(NumSign(distance.v), 1)))
    ELSE NaNPoint

\* if (smoothing) { ... }: the control points leave the position at right angles
smoothedNode(createdNode, angle, distance, smoothing) ==
    IF AmountTruthy(smoothing)
    THEN [createdNode EXCEPT
            !.controlPoint1 =
                PerpendicularOffset(createdNode.position, angle, distance, smoothing),
            !.controlPoint2 =
                PerpendicularOffset(createdNode.position, angle, distance,
                                    AmountScale(smoothing, Rat(-1, 1)))]
    ELSE createdNode

getRadialNode(angle, distance, position, smoothing) ==
    smoothedNode(VectorBloomNode(PointPlusPolar(position, angle, distance)),
                 angle, distance, smoothing)

(***************************************************************************)
(* ApplySmoothing(node, originNode, value).  The tangent, the normalized   *)
(* sum of the unit vectors originNode -> node and node -> node.curveTo, is *)
(* kept as the three positions it is computed from; an offset along it is  *)
(* factor * |along[1] - along[2]| * tangent.                               *)
(* Where a normalize() of the computation divides 0 by 0 the tangent is    *)
(* NaN, and so are both control points.                                    *)
(***************************************************************************)
TangentOffset(point, from, at, to, factor, along) ==
    [point EXCEPT !.tangent =
        Append(@, [from |-> from, at |-> at, to |-> to, factor |-> factor, along |-> along])]

\* a coordinate or a distance of the point is NaN
PointIsNaN(point) ==
    \/ IsNaN(point.x) \/ IsNaN(point.y)
    \/ \E s \in 1..Len(point.terms) : AmountIsNaN(point.terms[s].d)

\* two polar vectors that are the same vector: both of length 0, or equal
\* lengths along the same angle, or opposite lengths along opposite angles
SamePolar(s, t) ==
    \/ AmountIsZero(s.d) /\ AmountIsZero(t.d)
    \/ /\ s.angle.g = t.angle.g
       /\ \/ (s.angle.u - t.angle.u) % (2 * HalfTurn) = 0 /\ s.d = t.d
          \/ /\ (s.angle.u - t.angle.u) % (2 * HalfTurn) = HalfTurn
             /\ s.d = AmountScale(t.d, Rat(-1, 1))

\* two points known to have the same coordinates: the same sum of vectors,
\* or one radial projection each, of the same vector from the same point
SamePoint(p, q) ==
    \/ p = q
    \/ /\ p.x = q.x /\ p.y = q.y
       /\ p.tangent = <<>> /\ q.tangent = <<>>
       /\ Len(p.terms) = 1 /\ Len(q.terms) = 1
       /\ SamePolar(p.terms[1], q.terms[1])

\* normalize() divides by a magnitude of 0 (or meets NaN): the node lies on
\* its predecessor or on its successor, or predecessor and successor are the
\* same point, so that the two unit vectors cancel
TangentUndefined(from, at, to) ==
    \/ PointIsNaN(from) \/ PointIsNaN(at) \/ PointIsNaN(to)
    \/ SamePoint(from, at)
    \/ SamePoint(at, to)
    \/ SamePoint(from, to)

\* the two control points along the tangent, whatever the tangent is
smoothedAlong(node, origin, next, value) ==
    [node EXCEPT
       !.controlPoint2 =
           TangentOffset(node.position, origin.position, node.position, next.position,
                         value, <<next.position, node.position>>),
       !.controlPoint1 =
           TangentOffset(node.position, origin.position, node.position, next.position,
                         NumNeg(value), <<node.position, origin.position>>)]

\* the tangent taken from the predecessor's controlPoint2
smoothedFromControl(node, origin, next, value) ==
    IF TangentUndefined(origin.controlPoint2, node.position, next.position)
    THEN [node EXCEPT !.controlPoint2 = NaNPoint, !.controlPoint1 = NaNPoint]
    ELSE smoothedAlong(node, [origin EXCEPT !.position = origin.controlPoint2], next, value)

\* ApplySmoothing(node, originNode, value), next being node.curveTo
smoothed(node, origin, next, value) ==
    IF TangentUndefined(origin.position, node.position, next.position)
    THEN [node EXCEPT !.controlPoint2 = NaNPoint, !.controlPoint1 = NaNPoint]
    ELSE smoothedAlong(node, origin, next, value)

\* the node nodes[i], smoothed from the node nodes[o]
ApplySmoothing(nodes, i, o, value) ==
    smoothed(nodes[i], nodes[o], nodes[nodes[i].curveTo], value)

\* petal.nodes.forEach: every node in turn, smoothed from its predecessor
RECURSIVE smoothNodes(_, _, _)
smoothNodes(nodes, index, value) ==
    IF index > Len(nodes) THEN nodes
    ELSE smoothNodes([nodes EXCEPT ![index] =
                          ApplySmoothing(nodes, index,
                                         IF index = 1 THEN Len(nodes) ELSE index - 1, value)],
                     index + 1, value)

(***************************************************************************)
(* createPetal(petalGeometry, centerRadius, offset)                        *)
(***************************************************************************)
NoSmoothing == Plain(Zero)

At(u) == Angle(Zero, u)

\* the eight nodes with the balance points at the outer half width
eightNodesOuterBalance(offset, centerRadius, innerWidthHalf, outerWidthHalf, widthHalf, outer, balanced, extension, centerOffset) ==
    << getRadialNode(At(offset - innerWidthHalf), Plain(centerRadius), centerOffset, NoSmoothing),
       getRadialNode(At(offset), Plain(NumSub(centerRadius, Rat(10, 1))), centerOffset, NoSmoothing),
       getRadialNode(At(offset + innerWidthHalf), Plain(centerRadius), centerOffset, NoSmoothing),
       getRadialNode(At(offset + outerWidthHalf), Plain(balanced), centerOffset, NoSmoothing),
       getRadialNode(At(offset + outerWidthHalf), Plain(outer), centerOffset, NoSmoothing),
       getRadialNode(At(offset), AmountAdd(Plain(outer), extension), centerOffset, NoSmoothing),
       getRadialNode(At(offset - outerWidthHalf), Plain(outer), centerOffset, NoSmoothing),
       getRadialNode(At(offset - outerWidthHalf), Plain(balanced), centerOffset, NoSmoothing) >>

\* the eight getRadialNode calls, given the half widths (in units), the
\* distances of the outer and of the balance nodes, and the extension
eightNodes(offset, centerRadius, innerWidthHalf, outerWidthHalf, widthHalf, outer, balanced, extension, centerOffset) ==
    << getRadialNode(At(offset - innerWidthHalf), Plain(centerRadius), centerOffset, NoSmoothing),
       getRadialNode(At(offset), Plain(NumSub(centerRadius, Rat(10, 1))), centerOffset, NoSmoothing),
       getRadialNode(At(offset + innerWidthHalf), Plain(centerRadius), centerOffset, NoSmoothing),
       getRadialNode(At(offset + widthHalf), Plain(balanced), centerOffset, NoSmoothing),
       getRadialNode(At(offset + outerWidthHalf), Plain(outer), centerOffset, NoSmoothing),
       getRadialNode(At(offset), AmountAdd(Plain(outer), extension), centerOffset, NoSmoothing),
       getRadialNode(At(offset - outerWidthHalf), Plain(outer), centerOffset, NoSmoothing),
       getRadialNode(At(offset - widthHalf), Plain(balanced), centerOffset, NoSmoothing) >>

\* the extension added whether extendOutside is set or not
petalExtensionAlways(g, outer) ==
    Amount(Zero, NumMul(outer, Rat(ToRadian(g.outerWidth, 2), HalfTurn)))

\* (centerRadius + length) * outerWidthHalf when extendOutside, outerWidthHalf in radians
petalExtension(g, outer) ==
    IF g.extendOutside
    THEN Amount(Zero, NumMul(outer, Rat(ToRadian(g.outerWidth, 2), HalfTurn)))
    ELSE Plain(Zero)

extendedNodes(g, centerRadius, offset, outer) ==
    eightNodes(offset, centerRadius,
               ToRadian(g.innerWidth, 2), ToRadian(g.outerWidth, 2), ToRadian(g.width, 2),
               outer, NumAdd(centerRadius, NumMul(g.length, g.balance)),
               petalExtension(g, outer), VectorBloomPoint(g.offsetX, g.offsetY))

petalNodes(g, centerRadius, offset) ==
    extendedNodes(g, centerRadius, offset, NumAdd(centerRadius, g.length))

\* the nodes smoothed and the path left as the constructor compiled it
smoothedPetalStale(petal, smoothing) ==
    IF Truthy(smoothing) THEN [petal EXCEPT !.nodes = smoothNodes(@, 1, smoothing)] ELSE petal

\* if (petalGeometry.smoothing) { smooth every node; petal.compilePathData() }
smoothedPetal(petal, smoothing) ==
    IF Truthy(smoothing)
    THEN compilePathData([petal EXCEPT !.nodes = smoothNodes(@, 1, smoothing)])
    ELSE petal

createPetal(g, centerRadius, offset) ==
    smoothedPetal(VectorBloomPath(petalNodes(g, centerRadius, offset)), g.smoothing)

(***************************************************************************)
(* createCenterShape(r, age, size, angle)                                  *)
(***************************************************************************)
NullPath == [nodes |-> <<>>, d |-> <<>>, pathData |-> compilePathDataResult(<<>>)]

IsNullPath(path) == Len(path.nodes) = 0

\* nodes.length ? new VectorBloomPath(nodes) : null
PathOrNull(nodes) == IF Len(nodes) # 0 THEN VectorBloomPath(nodes) ELSE NullPath

QuarterTurn == HalfTurn \div 2

\* point + amount * normalize(r*sin(angle), r*cos(angle)); NaN when r is 0 or not finite
AlongRay(point, angle, r, amount) ==
    IF IsFinite(r) /\ ~IsZero(r)
    THEN PointPlusPolar(point, angle, Plain(NumMul(amount, Rat(NumSign(r), 1))))
    ELSE NaNPoint

\* the four nodes of the quadrilateral, its first node pointing to the flower's center
fourNodes(floretLength, size, angle, workerPoint1, smoothingFactor) ==
    << getRadialNode(Turn(angle, HalfTurn), Plain(floretLength), workerPoint1, Plain(Zero)) >>
    \o [j \in 1..3 |->
          getRadialNode(Turn(angle, HalfTurn + j * QuarterTurn), Plain(size),
                        workerPoint1, Plain(smoothingFactor))]

\* the length left as it is, whatever the radius
clampedLengthFree(floretLength, r) == floretLength

\* if (floretLength > r) floretLength = r
clampedLength(floretLength, r) == IF NumLt(r, floretLength) THEN r ELSE floretLength

\* age < 0.5
sleepingNodes(r, age, size, angle, workerPoint1) ==
    fourNodes(clampedLength(NumMin(NumMul(size, Rat(6, 1)),
                                   NumMul(NumDiv(Rat(1, 2), age), size)), r),
              size, angle, workerPoint1,
              IF NumLt(age, Rat(1, 10)) THEN Zero ELSE NumMul(size, age))

\* ten nodes around the floret, alternately at maxR and minR
tenNodes(maxR, minR, angle, workerPoint1, step) ==
    [j \in 1..10 |->
       getRadialNode(Turn(angle, (j - 1) * step),
                     Plain(IF (j - 1) % 2 = 0 THEN maxR ELSE minR),
                     workerPoint1, Amount(Zero, NumDiv(minR, Rat(15, 1))))]

\* age >= 0.5: minR = size - size * (age - 0.5), smoothing = Math.PI * minR / 15
radiatingNodes(age, size, angle, workerPoint1) ==
    tenNodes(size, NumSub(size, NumMul(size, NumSub(age, Rat(1, 2)))), angle, workerPoint1,
             (HalfTurn * 2) \div 10)

\* the seven nodes of the tip, a stem with a round top
sevenNodes(hs, circleR, angle, workerPoint1, workerPoint2, workerPoint3) ==
    << getRadialNode(Turn(angle, -QuarterTurn), Plain(hs), workerPoint1, NoSmoothing),
       getRadialNode(Turn(angle, QuarterTurn), Plain(hs), workerPoint1, NoSmoothing),
       getRadialNode(Turn(angle, QuarterTurn), Plain(hs), workerPoint2, NoSmoothing) >>
    \o [j \in 1..3 |->
          getRadialNode(Turn(angle, QuarterTurn - (j - 1) * QuarterTurn), Plain(circleR),
                        workerPoint3, Plain(NumMul(NumNeg(circleR), Rat(66, 100))))]
    \o << getRadialNode(Turn(angle, -QuarterTurn), Plain(hs), workerPoint2, NoSmoothing) >>

\* workerPoint3 = workerPoint4 * circleR + workerPoint2
sweptNodes(r, hs, circleR, angle, workerPoint1, workerPoint2) ==
    sevenNodes(hs, circleR, angle, workerPoint1, workerPoint2,
               AlongRay(workerPoint2, angle, r, circleR))

\* workerPoint2 = workerPoint4 * (circleR * (age - 0.7) * 8) + workerPoint1
stemNodes(r, age, hs, circleR, angle, workerPoint1) ==
    sweptNodes(r, hs, circleR, angle, workerPoint1,
               AlongRay(workerPoint1, angle, r,
                        NumMul(NumMul(circleR, NumSub(age, Rat(7, 10))), Rat(8, 1))))

\* age > 0.7: hs = size * age / 4, circleR = size / 2
tipNodesOf(r, age, size, angle, workerPoint1) ==
    stemNodes(r, age, NumDiv(NumMul(size, age), Rat(4, 1)), NumDiv(size, Rat(2, 1)),
              angle, workerPoint1)

\* the sleeping branch taken at age 0.5 too
baseNodesOfInclusive(r, age, size, angle, workerPoint1) ==
    IF NumLe(age, Rat(1, 2))
    THEN sleepingNodes(r, age, size, angle, workerPoint1)
    ELSE radiatingNodes(age, size, angle, workerPoint1)

\* the branches on age: the base nodes
baseNodesOf(r, age, size, angle, workerPoint1) ==
    IF NumLt(age, Rat(1, 2))
    THEN sleepingNodes(r, age, size, angle, workerPoint1)
    ELSE radiatingNodes(age, size, angle, workerPoint1)

\* a tip at age 0.7 too
tipNodesIfInclusive(r, age, size, angle, workerPoint1) ==
    IF ~NumLt(age, Rat(1, 2)) /\ NumLe(Rat(7, 10), age)
    THEN tipNodesOf(r, age, size, angle, workerPoint1)
    ELSE <<>>

\* the branches on age: the tip nodes, none unless age >= 0.5 and age > 0.7
tipNodesIf(r, age, size, angle, workerPoint1) ==
    IF ~NumLt(age, Rat(1, 2)) /\ NumLt(Rat(7, 10), age)
    THEN tipNodesOf(r, age, size, angle, workerPoint1)
    ELSE <<>>

shapeAt(r, age, size, angle, workerPoint1) ==
    [base |-> PathOrNull(baseNodesOf(r, age, size, angle, workerPoint1)),
     tip  |-> PathOrNull(tipNodesIf(r, age, size, angle, workerPoint1))]

createCenterShape(r, age, size, angle) ==
    shapeAt(r, age, size, angle, PointPlusPolar(Origin, angle, Plain(r)))

(***************************************************************************)
(* The state: one call of createPetals(petalConfig, centerRadius) or of    *)
(* createCenter(arrangement, radius), its arguments, its local variables   *)
(* and the value it returns.  florets records, for every iteration of      *)
(* createCenter's loop, the numbers the iteration computed.                *)
(***************************************************************************)
VARIABLES pc, petalGeometry, arrangement, radius,
          offset, i, petals,
          n, currentRadius, angle, centerArrangement,
          florets,
          original, config, flower,
          smoothingPetal, smoothedIndexes

vars == << pc, petalGeometry, arrangement, radius, offset, i, petals,
           n, currentRadius, angle, centerArrangement, florets,
           original, config, flower, smoothingPetal, smoothedIndexes >>

\* the state of a VectorBloom object: the configuration as it was passed,
\* the configuration object as it is now, and the flower built from it
Bloom == << original, config, flower >>

\* the petal createPetal is smoothing and the indexes of its nodes that
\* ApplySmoothing has been applied to
Smoothing == << smoothingPetal, smoothedIndexes >>

NotSmoothing == smoothingPetal = NullPath /\ smoothedIndexes = {}

\* the state of a single createPetals or createCenter call
Calls == << petalGeometry, arrangement, radius, offset, i, petals,
            n, currentRadius, angle, centerArrangement, florets >>

\* the petal geometries explored (every optional field filled, as FillDefaults leaves it)
PetalGeometries ==
    [ width : {18}, count : 0..MaxCount, length : {Rat(24, 1)},
      innerWidth : {18}, outerWidth : {18, 30},
      angleOffset : {0, 30}, radialOffset : {Zero, Rat(1, 4)},
      balance : {Rat(1, 2)}, smoothing : {Zero, Rat(1, 2)},
      extendOutside : BOOLEAN, offsetX : {Zero}, offsetY : {Zero, Rat(5, 1)} ]

NoPetalGeometry ==
    [ width |-> 0, count |-> 0, length |-> Zero, innerWidth |-> 0, outerWidth |-> 0,
      angleOffset |-> 0, radialOffset |-> Zero, balance |-> Zero, smoothing |-> Zero,
      extendOutside |-> FALSE, offsetX |-> Zero, offsetY |-> Zero ]

\* the center radii explored: multiples of RangeDen
Radii == { RangeDen * u : u \in 0..MaxRadiusUnits }

Ranges == { <<0, 4>>, <<0, 2>>, <<1, 3>>, <<2, 4>>, <<0, 0>>, <<2, 2>>, <<3, 1>>, <<4, 4>> }

Ages == { <<4, 8>>, <<5, 5>>, <<7, 7>>, <<0, 10>>, <<8, 4>>, <<0, 4>> }

Sizes == { <<1, 5>>, <<2, 2>> }

Arrangements(densities) ==
    [ age : Ages, range : Ranges, density : densities, size : Sizes ]

NoArrangement == [ age |-> <<0, 0>>, range |-> <<0, 0>>, density |-> 0, size |-> <<0, 0>> ]

NoCenter == [bases |-> <<>>, tips |-> <<>>]

Locals ==
    /\ offset = 0
    /\ i = 0
    /\ petals = <<>>
    /\ n = Zero
    /\ currentRadius = Zero
    /\ angle = Angle(Zero, 0)
    /\ centerArrangement = NoCenter
    /\ florets = <<>>
    /\ original = <<>>
    /\ config = <<>>
    /\ flower = <<>>
    /\ NotSmoothing

CallCreatePetals ==
    /\ pc = "createPetals"
    /\ petalGeometry \in PetalGeometries
    /\ arrangement = NoArrangement
    /\ radius \in Radii

CallCreateCenter(densities) ==
    /\ pc = "createCenter"
    /\ petalGeometry = NoPetalGeometry
    /\ arrangement \in Arrangements(densities)
    /\ radius \in Radii

Init == (CallCreatePetals \/ CallCreateCenter(1..MaxDensity)) /\ Locals

\* every numeric density, 0 included
InitAnyDensity == (CallCreatePetals \/ CallCreateCenter(0..MaxDensity)) /\ Locals

(***************************************************************************)
(* createPetals(petalConfig, centerRadius)                                 *)
(***************************************************************************)
\* x || otherwise
OrElse(x, otherwise) == IF Truthy(x) THEN x ELSE otherwise

\* a step of half the circle divided by count
petalStepHalved(g) == HalfTurn \div g.count

\* Math.PI * 2 / petalGeometry.count
petalStep(g) == (HalfTurn * 2) \div g.count

\* the radius of the center taken as it is, whatever the radialOffset
petalRadiusPlain(g, centerRadius) == centerRadius

\* centerRadius += (petalConfig.geometry.radialOffset || 0) * centerRadius
petalRadius(g, centerRadius) ==
    NumAdd(centerRadius, NumMul(OrElse(g.radialOffset, Zero), centerRadius))

EnterCreatePetals ==
    /\ pc = "createPetals"
    /\ offset' = ToRadian(petalGeometry.angleOffset, 1)
    /\ i' = 0
    /\ petals' = <<>>
    /\ pc' = "petalLoop"
    /\ UNCHANGED << petalGeometry, arrangement, radius, n, currentRadius, angle,
                    centerArrangement, florets >>
    /\ UNCHANGED Bloom
    /\ UNCHANGED Smoothing

\* one iteration of the for loop: i < count holds
PetalIteration ==
    /\ pc = "petalLoop"
    /\ i < petalGeometry.count
    /\ \E petal \in { createPetal(petalGeometry,
                                  petalRadius(petalGeometry, Rat(radius, 1)), offset) } :
          petals' = Append(petals, petal)
    /\ offset' = offset + petalStep(petalGeometry)
    /\ i' = i + 1
    /\ UNCHANGED << pc, petalGeometry, arrangement, radius, n, currentRadius, angle,
                    centerArrangement, florets >>
    /\ UNCHANGED Bloom
    /\ UNCHANGED Smoothing

\* i < count fails: return petals
ReturnPetals ==
    /\ pc = "petalLoop"
    /\ ~(i < petalGeometry.count)
    /\ pc' = "done"
    /\ UNCHANGED << petalGeometry, arrangement, radius, offset, i, petals,
                    n, currentRadius, angle, centerArrangement, florets >>
    /\ UNCHANGED Bloom
    /\ UNCHANGED Smoothing

(***************************************************************************)
(* createCenter(arrangement, radius)                                       *)
(***************************************************************************)
RangeValue(a, j) == Rat(a.range[j], RangeDen)

AgeValue(a, j) == Rat(a.age[j], Tenths)

SizeValue(a, j) == Rat(a.size[j], 1)

\* (arrangement.range[0] || 0) * radius
minRadius(a, r) == NumMul(OrElse(RangeValue(a, 1), Zero), Rat(r, 1))

\* (arrangement.range[1] || 1) * radius
maxRadius(a, r) == NumMul(OrElse(RangeValue(a, 2), Rat(1, 1)), Rat(r, 1))

radiusRange(a, r) == NumSub(maxRadius(a, r), minRadius(a, r))

ageRange(a) == NumSub(AgeValue(a, 2), AgeValue(a, 1))

sizeRange(a) == NumSub(SizeValue(a, 2), SizeValue(a, 1))

\* the starting index without the square
firstIndexUnsquared(a, r) ==
    IF ~IsZero(minRadius(a, r))
    THEN NumDiv(minRadius(a, r), Rat(a.density, 1))
    ELSE Zero

\* the index the loop starts from
firstIndex(a, r) ==
    IF ~IsZero(minRadius(a, r))
    THEN LET q == NumDiv(minRadius(a, r), Rat(a.density, 1)) IN NumMul(q, q)
    ELSE Zero

\* the loop runs while the paths it has built fit in memory
MaxFlorets == (RangeDen * MaxRadiusUnits) * (RangeDen * MaxRadiusUnits) + 2

EnterCreateCenter ==
    /\ pc = "createCenter"
    /\ currentRadius' = minRadius(arrangement, radius)
    /\ n' = firstIndex(arrangement, radius)
    /\ angle' = Angle(Zero, 0)
    /\ centerArrangement' = [bases |-> <<>>, tips |-> <<>>]
    /\ pc' = "centerLoop"
    /\ UNCHANGED << petalGeometry, arrangement, radius, offset, i, petals, florets >>
    /\ UNCHANGED Bloom
    /\ UNCHANGED Smoothing

\* the while condition of the do-while loop
loopsAgain(r, a, rad) == NumLt(r, maxRadius(a, rad))

\* the florets record of an iteration
FloretRecord(index, newAngle, r, ratio, age, size, base, tip) ==
    [n |-> index, angle |-> newAngle, radius |-> r, ratio |-> ratio, age |-> age,
     size |-> size, base |-> base, tip |-> tip]

\* if (base) bases.push(base); if (tip) tips.push(tip); n++; while (currentRadius < maxRadius)
PushShape(newAngle, r, ratio, age, size, shape) ==
    /\ angle' = newAngle
    /\ currentRadius' = r
    /\ centerArrangement' =
          [bases |-> IF IsNullPath(shape.base) THEN centerArrangement.bases
                     ELSE Append(centerArrangement.bases, shape.base),
           tips  |-> IF IsNullPath(shape.tip) THEN centerArrangement.tips
                     ELSE Append(centerArrangement.tips, shape.tip)]
    /\ n' = NumAdd(n, Rat(1, 1))
    /\ florets' = Append(florets,
          FloretRecord(n, newAngle, r, ratio, age, size,
                       IF IsNullPath(shape.base) THEN 0 ELSE Len(centerArrangement.bases) + 1,
                       IF IsNullPath(shape.tip) THEN 0 ELSE Len(centerArrangement.tips) + 1))
    /\ pc' = IF loopsAgain(r, arrangement, radius) THEN "centerLoop" ELSE "done"

\* const { base, tip } = createCenterShape(currentRadius, currentAge, currentSize, angle)
ShapeStep(newAngle, r, ratio, age, size) ==
    \E shape \in { createCenterShape(r, age, size, newAngle) } :
        PushShape(newAngle, r, ratio, age, size, shape)

\* the age interpolated from age[1] down to age[0]
RatioStepFromEnd(newAngle, r, ratio) ==
    \E currentAge \in { NumSub(AgeValue(arrangement, 2),
                               NumMul(ratio, ageRange(arrangement))) } :
    \E currentSize \in { NumAdd(NumMul(ratio, sizeRange(arrangement)),
                                SizeValue(arrangement, 1)) } :
        ShapeStep(newAngle, r, ratio, currentAge, currentSize)

\* currentAge and currentSize: the ranges interpolated by currentRadiusRatio
RatioStep(newAngle, r, ratio) ==
    \E currentAge \in { NumAdd(NumMul(ratio, ageRange(arrangement)),
                               AgeValue(arrangement, 1)) } :
    \E currentSize \in { NumAdd(NumMul(ratio, sizeRange(arrangement)),
                                SizeValue(arrangement, 1)) } :
        ShapeStep(newAngle, r, ratio, currentAge, currentSize)

\* currentRadiusRatio = (currentRadius - minRadius) / radiusRange
RadiusStep(newAngle, r) ==
    \E currentRadiusRatio \in { NumDiv(NumSub(r, minRadius(arrangement, radius)),
                                       radiusRange(arrangement, radius)) } :
        RatioStep(newAngle, r, currentRadiusRatio)

\* one iteration of the do-while loop, its test included:
\* angle = n * GOLDEN_RADIANS, currentRadius = density * Math.sqrt(n)
CenterIteration ==
    /\ pc = "centerLoop"
    /\ Len(florets) < MaxFlorets
    /\ \E r \in { NumMul(Rat(arrangement.density, 1), NumSqrt(n)) } :
          RadiusStep(Angle(n, 0), r)
    /\ UNCHANGED << petalGeometry, arrangement, radius, offset, i, petals >>
    /\ UNCHANGED Bloom
    /\ UNCHANGED Smoothing

Next == \/ EnterCreatePetals
        \/ PetalIteration
        \/ ReturnPetals
        \/ EnterCreateCenter
        \/ CenterIteration

Spec == Init /\ [][Next]_vars

\* the calls with every numeric density explored, 0 included
SpecAnyDensity == InitAnyDensity /\ [][Next]_vars

(***************************************************************************)
(* The configuration object and VectorBloom.FillDefaults(config).  A       *)
(* number of degrees or a count the caller left out is Undefined, any      *)
(* other number left out is Omitted, and a fill left out has present =     *)
(* FALSE.  A call that can throw is modelled by its result: the object as  *)
(* the call leaves it, and whether the call threw.                         *)
(***************************************************************************)
Omitted == [k |-> "undefined", a |-> 0, b |-> 0, m |-> 0, den |-> 1]

\* isNull(value), of a number
isNull(value) == value.k = "undefined"

\* isNull(value), of a number of degrees or of a count
isNullDegrees(value) == value = Undefined

\* !value, of a number of degrees or of a count
Falsy(value) == value = Undefined \/ value = 0

Returned(value) == [value |-> value, thrown |-> FALSE]

Thrown(value) == [value |-> value, thrown |-> TRUE]

\* a fill the configuration does not have
NoFill ==
    [present |-> FALSE, color |-> <<>>, strokeColor |-> "undefined",
     strokeWidth |-> Undefined, shadow |-> FALSE, blur |-> Undefined]

\* a fill with one gradient stop and nothing else
PlainFill ==
    [present |-> TRUE, color |-> << Undefined >>, strokeColor |-> "undefined",
     strokeWidth |-> Undefined, shadow |-> FALSE, blur |-> Undefined]

\* what fillFillDefaults writes into a fill that exists
filledFill(fill) ==
    [fill EXCEPT
       !.color = [s \in DOMAIN fill.color |->
                     IF fill.color[s] = Undefined THEN Tenths \div 2 ELSE fill.color[s]],
       !.strokeColor = IF @ = "undefined" THEN "#000000" ELSE @,
       !.strokeWidth = IF @ = Undefined THEN 0 ELSE @,
       !.shadow = TRUE,
       !.blur = IF fill.shadow THEN @ ELSE 0]

\* fillFillDefaults(fill): fill.color of a fill that is undefined is a TypeError
fillFillDefaults(fill) ==
    IF fill.present THEN Returned(filledFill(fill)) ELSE Thrown(fill)

\* !geometry.width || !geometry.count || !geometry.length
crucialMissing(geometry) ==
    \/ Falsy(geometry.width)
    \/ Falsy(geometry.count)
    \/ isNull(geometry.length)
    \/ ~Truthy(geometry.length)

\* the else branch of fillPetalDefaults: the eight isNull tests
filledGeometry(geometry) ==
    [geometry EXCEPT
       !.outerWidth = IF isNullDegrees(@) THEN geometry.width ELSE @,
       !.angleOffset = IF isNullDegrees(@) THEN 0 ELSE @,
       !.radialOffset = IF isNull(@) THEN Zero ELSE @,
       !.balance = IF isNull(@) THEN Rat(1, 2) ELSE @,
       !.smoothing = IF isNull(@) THEN Zero ELSE @,
       !.innerWidth = IF isNullDegrees(@) THEN geometry.width ELSE @,
       !.offsetX = IF isNull(@) THEN Zero ELSE @,
       !.offsetY = IF isNull(@) THEN Zero ELSE @]

\* fillPetalDefaults(config): the geometry first, then fillFillDefaults(config.fill)
fillPetalDefaults(petalConfig) ==
    [value |-> [geometry |-> IF crucialMissing(petalConfig.geometry)
                             THEN petalConfig.geometry
                             ELSE filledGeometry(petalConfig.geometry),
                fill |-> fillFillDefaults(petalConfig.fill).value],
     thrown |-> fillFillDefaults(petalConfig.fill).thrown]

\* fillFillDefaults(config.fill.base); fillFillDefaults(config.fill.tip)
fillCenterDefaults(arrangementConfig) ==
    IF ~arrangementConfig.fill.present \/ fillFillDefaults(arrangementConfig.fill.base).thrown
    THEN Thrown(arrangementConfig)
    ELSE [value |-> [arrangementConfig EXCEPT
                        !.fill.base = fillFillDefaults(@).value,
                        !.fill.tip = fillFillDefaults(@).value],
          thrown |-> fillFillDefaults(arrangementConfig.fill.tip).thrown]

\* config.petals.forEach(fillPetalDefaults), from the group at index on:
\* the first call that throws ends the loop
RECURSIVE fillPetals(_, _)
fillPetals(list, index) ==
    IF index > Len(list) THEN Returned(list)
    ELSE IF fillPetalDefaults(list[index]).thrown
         THEN Thrown([list EXCEPT ![index] = fillPetalDefaults(@).value])
         ELSE fillPetals([list EXCEPT ![index] = fillPetalDefaults(@).value], index + 1)

\* config.center.arrangement.forEach(fillCenterDefaults), from index on
RECURSIVE fillArrangements(_, _)
fillArrangements(list, index) ==
    IF index > Len(list) THEN Returned(list)
    ELSE IF fillCenterDefaults(list[index]).thrown
         THEN Thrown([list EXCEPT ![index] = fillCenterDefaults(@).value])
         ELSE fillArrangements([list EXCEPT ![index] = fillCenterDefaults(@).value], index + 1)

\* the radius of the center FillDefaults supplies
DefaultRadius == 50

\* if (!config.petals) config.petals = []
withPetals(c) ==
    IF c.hasPetals THEN c ELSE [c EXCEPT !.hasPetals = TRUE, !.petals = <<>>]

\* if (!config.center) config.center = { radius: 50, arrangement: [] }
withCenter(c) ==
    IF c.hasCenter THEN c
    ELSE [c EXCEPT !.hasCenter = TRUE,
                   !.center = [radius |-> DefaultRadius, arrangement |-> <<>>]]

\* the two forEach loops of FillDefaults on a configuration that has both lists
filledLists(c) ==
    IF fillPetals(c.petals, 1).thrown
    THEN Thrown([c EXCEPT !.petals = fillPetals(@, 1).value])
    ELSE [value |-> [c EXCEPT !.petals = fillPetals(@, 1).value,
                              !.center.arrangement = fillArrangements(@, 1).value],
          thrown |-> fillArrangements(c.center.arrangement, 1).thrown]

\* VectorBloom.FillDefaults(config)
FillDefaults(c) == filledLists(withCenter(withPetals(c)))

(***************************************************************************)
(* createPetals(petalConfig, centerRadius) and createCenter(arrangement,   *)
(* radius) as the values they return.  A field FillDefaults left undefined *)
(* is NaN in arithmetic; the sine and cosine of NaN are NaN.               *)
(***************************************************************************)
\* the one element of a set of one element
Only(S) == CHOOSE y \in S : TRUE

\* the number the arithmetic operators make of a field: undefined is NaN
ToNumber(value) == IF isNull(value) THEN NaN ELSE value

\* the geometry as createPetals and createPetal read it: angleOffset || 0,
\* offsetX || 0, offsetY || 0; an undefined width stands as 0 here and makes
\* the nodes listed by aimlessNodes NaN
numbers(geometry) ==
    [geometry EXCEPT
       !.length = ToNumber(@), !.radialOffset = ToNumber(@), !.balance = ToNumber(@),
       !.smoothing = ToNumber(@),
       !.offsetX = OrElse(ToNumber(@), Zero), !.offsetY = OrElse(ToNumber(@), Zero),
       !.angleOffset = IF Falsy(@) THEN 0 ELSE @,
       !.width = IF isNullDegrees(@) THEN 0 ELSE @,
       !.innerWidth = IF isNullDegrees(@) THEN 0 ELSE @,
       !.outerWidth = IF isNullDegrees(@) THEN 0 ELSE @]

\* the nodes of a petal whose angle or distance is computed from an undefined width
aimlessNodes(geometry) ==
    (IF isNullDegrees(geometry.innerWidth) THEN {1, 3} ELSE {})
    \cup (IF isNullDegrees(geometry.width) THEN {4, 8} ELSE {})
    \cup (IF isNullDegrees(geometry.outerWidth)
          THEN (IF geometry.extendOutside THEN {5, 6, 7} ELSE {5, 7}) ELSE {})

\* getRadialNode(NaN, distance, centerOffset)
NaNNode == VectorBloomNode(NaNPoint)

\* the eight nodes of createPetal, whatever fields the geometry has
nodesOf(geometry, centerRadius, off) ==
    [j \in 1..8 |-> IF j \in aimlessNodes(geometry) THEN NaNNode
                    ELSE petalNodes(numbers(geometry), centerRadius, off)[j]]

\* createPetal(petalGeometry, centerRadius, offset), whatever fields the geometry has
createPetalOf(geometry, centerRadius, off) ==
    IF aimlessNodes(geometry) = {}
    THEN createPetal(numbers(geometry), centerRadius, off)
    ELSE smoothedPetal(VectorBloomPath(nodesOf(geometry, centerRadius, off)),
                       numbers(geometry).smoothing)

\* the for loop of createPetals from iteration k on
RECURSIVE petalsFrom(_, _, _, _)
petalsFrom(geometry, centerRadius, off, k) ==
    IF k < geometry.count
    THEN << createPetalOf(geometry, centerRadius, off) >>
         \o petalsFrom(geometry, centerRadius, off + petalStep(geometry), k + 1)
    ELSE << >>

\* createPetals(petalConfig, centerRadius)
createPetals(petalConfig, centerRadius) ==
    petalsFrom(petalConfig.geometry,
               petalRadius(numbers(petalConfig.geometry), Rat(centerRadius, 1)),
               ToRadian(numbers(petalConfig.geometry).angleOffset, 1), 0)

\* if (base) bases.push(base); if (tip) tips.push(tip)
pushed(built, shape) ==
    [bases |-> IF IsNullPath(shape.base) THEN built.bases ELSE Append(built.bases, shape.base),
     tips  |-> IF IsNullPath(shape.tip) THEN built.tips ELSE Append(built.tips, shape.tip)]

\* currentAge, currentSize and the createCenterShape call of one iteration
floretShape(a, rad, index, r, ratio) ==
    createCenterShape(r, NumAdd(NumMul(ratio, ageRange(a)), AgeValue(a, 1)),
                      NumAdd(NumMul(ratio, sizeRange(a)), SizeValue(a, 1)), Angle(index, 0))

\* currentRadiusRatio and the shape of the iteration with index n
floretAt(a, rad, index, r) ==
    Only({ floretShape(a, rad, index, r, ratio) :
             ratio \in { NumDiv(NumSub(r, minRadius(a, rad)), radiusRange(a, rad)) } })

\* the do-while loop of createCenter from the iteration with index n on
RECURSIVE centerFrom(_, _, _, _, _)
centerAfter(a, rad, index, built, steps, r) ==
    IF loopsAgain(r, a, rad) /\ steps + 1 < MaxFlorets
    THEN centerFrom(a, rad, NumAdd(index, Rat(1, 1)), built, steps + 1)
    ELSE built

centerFrom(a, rad, index, built, steps) ==
    Only({ Only({ centerAfter(a, rad, index, next, steps, r) :
                    next \in { pushed(built, floretAt(a, rad, index, r)) } }) :
             r \in { NumMul(Rat(a.density, 1), NumSqrt(index)) } })

\* createCenter(arrangement, radius)
createCenter(a, rad) == centerFrom(a, rad, firstIndex(a, rad), NoCenter, 0)

(***************************************************************************)
(* The VectorBloom object.  flower.petals, flower.center and               *)
(* flower.backgrounds are this.petals, this.center and this.backgrounds;   *)
(* every list createElements builds carries in made the number of the      *)
(* createElements call that allocated its objects.  flower.groups counts   *)
(* the <g> elements drawSVG has put in the SVG element, highlighted is the *)
(* set of those whose class list has vectorBloomHighlight, and lastCall    *)
(* is the method called last, its argument and whether it threw.           *)
(* flower.drawn is the sequence of those <g> elements, each with the path  *)
(* elements appended to it; flower.defs and flower.styles are what         *)
(* applyStyles has put in <defs> and in the <style> tag.  The flowerID is  *)
(* left out of the ids: one object is modelled.                            *)
(***************************************************************************)
\* the lists in the order of the configuration (push)
inConfigOrder(list) == list

\* the lists as unshift leaves them: the last configured first
unshifted(list) == [j \in 1..Len(list) |-> list[Len(list) + 1 - j]]

\* the petals of every group, in the order of the configuration
petalsOfGroups(c, generation) ==
    [j \in 1..Len(c.petals) |->
       [paths |-> createPetals(c.petals[j], c.center.radius), made |-> generation]]

\* the arrangements of the center, in the order of the configuration
centersOfArrangements(c, generation) ==
    [j \in 1..Len(c.center.arrangement) |->
       [bases |-> createCenter(c.center.arrangement[j].geometry, c.center.radius).bases,
        tips |-> createCenter(c.center.arrangement[j].geometry, c.center.radius).tips,
        made |-> generation]]

\* config.radius + "": the text of a number
NumberText(x) == [text |-> x]

\* parseFloat of the text of a number
parseFloat(t) == t.text

\* this.config.center.radius * Math.max.apply(null, arrangement.geometry.range)
discRadius(a, rad) ==
    NumMul(Rat(rad, 1), NumMax(RangeValue(a.geometry, 1), RangeValue(a.geometry, 2)))

\* createCircleElement({ radius, color })
createCircleElement(discR, color, generation) ==
    [r |-> NumberText(discR), fill |-> color, made |-> generation]

\* the discs pushed, in the order of the configuration
RECURSIVE discsFrom(_, _, _)
discsFrom(c, j, generation) ==
    IF j > Len(c.center.arrangement) THEN << >>
    ELSE (IF c.center.arrangement[j].fill.background # ""
          THEN << createCircleElement(discRadius(c.center.arrangement[j], c.center.radius),
                                      c.center.arrangement[j].fill.background, generation) >>
          ELSE << >>)
         \o discsFrom(c, j + 1, generation)

\* the disc put behind the discs that are not smaller
RECURSIVE insertDisc(_, _)
insertDisc(sorted, disc) ==
    IF Len(sorted) = 0 THEN << disc >>
    ELSE IF NumLt(parseFloat(Head(sorted).r), parseFloat(disc.r))
         THEN << disc >> \o sorted
         ELSE << Head(sorted) >> \o insertDisc(Tail(sorted), disc)

RECURSIVE sortedFrom(_, _, _)
sortedFrom(list, j, sorted) ==
    IF j > Len(list) THEN sorted ELSE sortedFrom(list, j + 1, insertDisc(sorted, list[j]))

\* the discs left as they were pushed
unsortedDiscs(list) == list

\* this.backgrounds.sort((c1, c2) => r2 - r1)
sortDiscs(list) == sortedFrom(list, 1, << >>)

\* the lists of the previous generation kept: no length = 0
createElementsKeeping(f, c) ==
    [f EXCEPT
       !.generation = @ + 1,
       !.petals = unshifted(petalsOfGroups(c, f.generation + 1)) \o @,
       !.center = unshifted(centersOfArrangements(c, f.generation + 1)) \o @,
       !.backgrounds = sortDiscs(@ \o discsFrom(c, 1, f.generation + 1))]

\* createElements()
createElements(f, c) ==
    [f EXCEPT
       !.generation = @ + 1,
       !.petals = unshifted(petalsOfGroups(c, f.generation + 1)),
       !.center = unshifted(centersOfArrangements(c, f.generation + 1)),
       !.backgrounds = sortDiscs(discsFrom(c, 1, f.generation + 1))]

GroupId(group, index) == [group |-> group, index |-> index]

\* the ids of defs and the class names: `${prefix}${flowerID}-${kind}-${index}`
DefId(prefix, kind, index) == [prefix |-> prefix, kind |-> kind, index |-> index]

NoId == DefId("", "", -1)

\* a <g> element with its fill, id and class, and the path elements appended
GroupElement(group, prefix, index, children) ==
    [id |-> GroupId(group, index), fill |-> DefId(prefix, "Gradient", index),
     class |-> DefId(prefix, "Styles", index), children |-> children,
     filter |-> NoId, childFilter |-> NoId]

\* this.petals.forEach((petalArray, i) => ...): one group per list of petals
petalGroups(f) ==
    [j \in 1..Len(f.petals) |->
       GroupElement("petalGroup", "petal", j - 1, f.petals[j].paths)]

\* this.center.forEach((arrangement, i) => ...): baseG, then tipG
centerGroups(f) ==
    [s \in 1..(2 * Len(f.center)) |->
       IF s % 2 = 1
       THEN GroupElement("centerBaseGroup", "centerBase", (s - 1) \div 2,
                         f.center[(s + 1) \div 2].bases)
       ELSE GroupElement("centerTipGroup", "centerTip", (s - 2) \div 2,
                         f.center[s \div 2].tips)]

\* drawSVG(container) before applyStyles: the groups are made anew, one per
\* list of petals and two per arrangement
groupsDrawn(f) ==
    [f EXCEPT !.groups = [petals |-> Len(f.petals), center |-> Len(f.center)],
              !.highlighted = {},
              !.drawn = petalGroups(f) \o centerGroups(f)]

\* a <radialGradient> of defs: its id, its stops and its r attribute
Gradient(prefix, index, stops, r) ==
    [id |-> DefId(prefix, "Gradient", index), stops |-> stops, r |-> r]

\* a <filter> of defs: createShadowFilter(id, config)
Filter(prefix, index, fill) ==
    [id |-> DefId(prefix, "Shadow", index), blur |-> fill.blur]

\* the text `.petalStyles${flowerID}-${inverseIndex} {stroke: ...; stroke-width: ...;}`
StyleRule(prefix, index, fill) ==
    [class |-> DefId(prefix, "Styles", index), strokeColor |-> fill.strokeColor,
     strokeWidth |-> fill.strokeWidth]

\* the suffix is the index of the configuration itself
sameIndex(list, index) == index - 1

\* inverseIndex = length - (index + 1), index counted from 1 here
inverseIndex(list, index) == Len(list) - index

\* the entries of the list whose inverseIndex is the suffix
entriesFor(list, suffix) == { index \in 1..Len(list) : inverseIndex(list, index) = suffix }

entryFor(list, suffix) == CHOOSE index \in entriesFor(list, suffix) : TRUE

\* radius * 1.5 of a petal gradient: center radius + geometry.length
petalGradientRadius(c, index) ==
    IF isNull(c.petals[index].geometry.length) THEN NaN
    ELSE NumMul(NumAdd(Rat(c.center.radius, 1), c.petals[index].geometry.length), Rat(3, 2))

\* radius * 1.5 of a center gradient: range[1] * center radius
centerGradientRadius(c, index) ==
    NumMul(Rat(c.center.arrangement[index].geometry.range[2] * c.center.radius, RangeDen),
           Rat(3, 2))

\* createAndApplyRGradient of every petal group and of every arrangement
gradientsOf(c) ==
    { Gradient("petal", inverseIndex(c.petals, index), c.petals[index].fill.color,
               petalGradientRadius(c, index)) : index \in 1..Len(c.petals) }
    \cup UNION { { Gradient("centerBase", inverseIndex(c.center.arrangement, index),
                            c.center.arrangement[index].fill.base.color,
                            centerGradientRadius(c, index)),
                   Gradient("centerTip", inverseIndex(c.center.arrangement, index),
                            c.center.arrangement[index].fill.tip.color,
                            centerGradientRadius(c, index)) } :
                 index \in 1..Len(c.center.arrangement) }

\* the fills whose shadow has a blur: config.blur == 0 makes no filter
blurred(prefix, index, fill) == IF fill.blur = 0 THEN {} ELSE { Filter(prefix, index, fill) }

\* createAndApplyFilter of every petal group and of every arrangement: the
\* filters appended to defs
filtersOf(c) ==
    UNION { blurred("petal", inverseIndex(c.petals, index), c.petals[index].fill) :
              index \in 1..Len(c.petals) }
    \cup UNION { blurred("centerBase", inverseIndex(c.center.arrangement, index),
                         c.center.arrangement[index].fill.base)
                 \cup blurred("centerTip", inverseIndex(c.center.arrangement, index),
                              c.center.arrangement[index].fill.tip) :
                 index \in 1..Len(c.center.arrangement) }

\* the rules appended to the style tag after the highlight rule
stylesOf(c) ==
    { StyleRule("petal", inverseIndex(c.petals, index), c.petals[index].fill) :
        index \in 1..Len(c.petals) }
    \cup UNION { { StyleRule("centerBase", inverseIndex(c.center.arrangement, index),
                             c.center.arrangement[index].fill.base),
                   StyleRule("centerTip", inverseIndex(c.center.arrangement, index),
                             c.center.arrangement[index].fill.tip) } :
                 index \in 1..Len(c.center.arrangement) }

\* the fill whose filter createAndApplyFilter applies to the group: that of
\* the configured entry whose inverseIndex is the group's index
fillOfGroup(c, id) ==
    IF id.group = "petalGroup" THEN c.petals[entryFor(c.petals, id.index)].fill
    ELSE IF id.group = "centerBaseGroup"
         THEN c.center.arrangement[entryFor(c.center.arrangement, id.index)].fill.base
         ELSE c.center.arrangement[entryFor(c.center.arrangement, id.index)].fill.tip

\* an entry of the configuration reaches the group by querySelector
groupStyled(c, id) ==
    IF id.group = "petalGroup" THEN entriesFor(c.petals, id.index) # {}
    ELSE entriesFor(c.center.arrangement, id.index) # {}

\* target.setAttribute("filter", ...) on the group, or on its children when
\* filterOnElements is passed (the base groups); removeAttribute when blur is 0
filtered(c, g) ==
    IF ~groupStyled(c, g.id) \/ fillOfGroup(c, g.id).blur = 0 THEN g
    ELSE IF g.id.group = "centerBaseGroup"
         THEN [g EXCEPT !.childFilter = DefId(g.fill.prefix, "Shadow", g.id.index)]
         ELSE [g EXCEPT !.filter = DefId(g.fill.prefix, "Shadow", g.id.index)]

\* querySelector gives null for a group drawSVG has not made, and
\* createAndApplyFilter then throws a TypeError
groupMissing(f, c) ==
    Len(c.petals) > f.groups.petals \/ Len(c.center.arrangement) > f.groups.center

\* applyStyles(): defs and the style tag are emptied and filled again
applyStyles(f, c) ==
    [f EXCEPT !.defs = gradientsOf(c) \cup filtersOf(c),
              !.styles = stylesOf(c),
              !.drawn = [s \in DOMAIN f.drawn |-> filtered(c, f.drawn[s])],
              !.lastCall.threw = groupMissing(f, c)]

\* drawSVG(container), which ends with this.applyStyles()
drawSVG(f, c) == applyStyles(groupsDrawn(f), c)

\* querySelector(`#petalGroup${flowerID}-${index}`): null unless drawSVG made it
petalGroupFound(f, index) == index \in 0..(f.groups.petals - 1)

\* querySelector(`#centerBaseGroup${flowerID}-${index}`), and the same of the tip group
centerGroupFound(f, index) == index \in 0..(f.groups.center - 1)

\* classList.add or classList.remove of vectorBloomHighlight
classListChanged(classes, ids, adding) == IF adding THEN classes \cup ids ELSE classes \ ids

\* the call recorded in lastCall
Call(name, index, threw) == [name |-> name, index |-> index, threw |-> threw]

\* highlightPetal(index) and unhighlightPetal(index):
\* index = this.config.petals.length - index - 1; if (index > -1) ... .classList
petalHighlighting(f, c, name, index, inverse, adding) ==
    IF ~(inverse > -1) THEN [f EXCEPT !.lastCall = Call(name, index, FALSE)]
    ELSE IF ~petalGroupFound(f, inverse) THEN [f EXCEPT !.lastCall = Call(name, index, TRUE)]
    ELSE [f EXCEPT !.lastCall = Call(name, index, FALSE),
                   !.highlighted = classListChanged(@, {GroupId("petalGroup", inverse)}, adding)]

\* highlightCenter(index) and unhighlightCenter(index)
centerHighlighting(f, c, name, index, inverse, adding) ==
    IF ~(inverse > -1) THEN [f EXCEPT !.lastCall = Call(name, index, FALSE)]
    ELSE IF ~centerGroupFound(f, inverse) THEN [f EXCEPT !.lastCall = Call(name, index, TRUE)]
    ELSE [f EXCEPT !.lastCall = Call(name, index, FALSE),
                   !.highlighted = classListChanged(@, {GroupId("centerBaseGroup", inverse),
                                                         GroupId("centerTipGroup", inverse)}, adding)]

highlightPetal(f, c, index) ==
    petalHighlighting(f, c, "highlightPetal", index, Len(c.petals) - index - 1, TRUE)

unhighlightPetal(f, c, index) ==
    petalHighlighting(f, c, "unhighlightPetal", index, Len(c.petals) - index - 1, FALSE)

highlightCenter(f, c, index) ==
    centerHighlighting(f, c, "highlightCenter", index, Len(c.center.arrangement) - index - 1, TRUE)

unhighlightCenter(f, c, index) ==
    centerHighlighting(f, c, "unhighlightCenter", index, Len(c.center.arrangement) - index - 1, FALSE)

(***************************************************************************)
(* updateDrawingSize() of the built module (src/dist).  The magnitude of a *)
(* position is kept as its square.  The cosine is evaluated for the angles *)
(* between the polar terms of one position, which are multiples of a       *)
(* quarter turn or of a tenth of a turn; the sine and cosine of a term are *)
(* evaluated when its angle is a multiple of a quarter turn.               *)
(***************************************************************************)
TenthTurn == (2 * HalfTurn) \div 10

\* cos(k * PI / 2)
CosQuarters(k) == IF k = 0 THEN Rat(1, 1) ELSE IF k = 2 THEN Rat(-1, 1) ELSE Zero

\* cos(k * PI / 5): (1 + sqrt(5)) / 4 at k = 1, (sqrt(5) - 1) / 4 at k = 2
CosTenths(k) ==
    IF k = 0 THEN Rat(1, 1)
    ELSE IF k = 5 THEN Rat(-1, 1)
    ELSE IF k \in {1, 9} THEN Fin(1, 1, 5, 4)
    ELSE IF k \in {2, 8} THEN Fin(-1, 1, 5, 4)
    ELSE IF k \in {3, 7} THEN Fin(1, -1, 5, 4)
    ELSE Fin(-1, -1, 5, 4)

\* the angles whose cosine is evaluated
Known(u) == u % QuarterTurn = 0 \/ u % TenthTurn = 0

\* Math.cos of u units
CosOf(u) ==
    IF u % QuarterTurn = 0 THEN CosQuarters((u % (2 * HalfTurn)) \div QuarterTurn)
    ELSE IF u % TenthTurn = 0 THEN CosTenths((u % (2 * HalfTurn)) \div TenthTurn)
    ELSE NaN

\* Math.sin of u units
SinOf(u) == CosOf(u - QuarterTurn)

\* the product of the polar terms i and j of a position, times the cosine of
\* the angle between them
pairProduct(terms, s, t) ==
    NumMul(NumMul(terms[s].d.v, terms[t].d.v),
           IF s = t THEN Rat(1, 1) ELSE CosOf(terms[s].angle.u - terms[t].angle.u))

RECURSIVE pairSum(_, _)
pairSum(terms, k) ==
    IF k >= Len(terms) * Len(terms) THEN Zero
    ELSE NumAdd(pairProduct(terms, (k \div Len(terms)) + 1, (k % Len(terms)) + 1),
                pairSum(terms, k + 1))

\* x * x + y * y of a position that is a sum of polar terms from the origin
magnitudeSquared(position) ==
    IF IsNaN(position.x) \/ IsNaN(position.y) THEN NaN ELSE pairSum(position.terms, 0)

\* the positions the model measures exactly: polar terms from the origin,
\* with one multiple of GOLDEN_RADIANS and known angles between them
Measured(position) ==
    \/ IsNaN(position.x) \/ IsNaN(position.y)
    \/ /\ IsZero(position.x) /\ IsZero(position.y)
       /\ \A s, t \in 1..Len(position.terms) :
             /\ IsZero(position.terms[s].d.pi)
             /\ position.terms[s].angle.g = position.terms[t].angle.g
             /\ (s # t => Known(position.terms[s].angle.u - position.terms[t].angle.u))

\* the positions whose coordinates the model evaluates: every polar term
\* that is not 0 lies on an axis
OnAxes(position) ==
    /\ IsFinite(position.x) /\ IsFinite(position.y)
    /\ \A s \in 1..Len(position.terms) :
          /\ IsZero(position.terms[s].d.pi)
          /\ IsFinite(position.terms[s].d.v)
          /\ \/ IsZero(position.terms[s].d.v)
             \/ IsZero(position.terms[s].angle.g) /\ position.terms[s].angle.u % QuarterTurn = 0

RECURSIVE xFrom(_, _)
xFrom(position, s) ==
    IF s > Len(position.terms) THEN position.x
    ELSE NumAdd(NumMul(position.terms[s].d.v, SinOf(position.terms[s].angle.u)),
                xFrom(position, s + 1))

RECURSIVE yFrom(_, _)
yFrom(position, s) ==
    IF s > Len(position.terms) THEN position.y
    ELSE NumAdd(NumMul(position.terms[s].d.v, CosOf(position.terms[s].angle.u)),
                yFrom(position, s + 1))

\* the positions of the nodes of the paths of a list
positionsOf(paths) ==
    UNION { { paths[j].nodes[k].position : k \in 1..Len(paths[j].nodes) } : j \in 1..Len(paths) }

\* the positions loopNodes visits: the petals' when there are lists of
\* petals, else those of the bases of the center
loopedPositions(f) ==
    IF Len(f.petals) = 0
    THEN UNION { positionsOf(f.center[j].bases) : j \in 1..Len(f.center) }
    ELSE UNION { positionsOf(f.petals[j].paths) : j \in 1..Len(f.petals) }

\* the squares of the magnitudes that are numbers: magnitude > maxWidth is
\* false of NaN
magnitudes(f) ==
    { m \in { magnitudeSquared(position) : position \in loopedPositions(f) } : ~IsNaN(m) }

greatest(S) == CHOOSE m \in S : \A o \in S : ~NumLt(m, o)

\* a width: -Infinity, or twice the square root of halfSquared
Width(infinite, halfSquared) == [infinite |-> infinite, halfSquared |-> halfSquared]

\* this.maxWidth = 100
InitialWidth == Width(FALSE, Rat(50 * 50, 1))

\* this.maxWidth = -Infinity; loopNodes(...); this.maxWidth *= 2
updateDrawingSize(f) ==
    [f EXCEPT !.maxWidth = IF magnitudes(f) = {} THEN Width(TRUE, Zero)
                           ELSE Width(FALSE, greatest(magnitudes(f)))]

(***************************************************************************)
(* Zooming and fitting.  The width of the drawing is DEFAULT_PAGE_SIZE     *)
(* until fitDrawing measures the bounding box of the content; the box is   *)
(* not computed, drawingWidth records which of the two it is.  The viewBox *)
(* `${(w - w * zoom) / 2} ${(w - w * zoom) / 2} ${w * zoom} ${w * zoom}`   *)
(* is kept as the width w and the zoom.                                    *)
(***************************************************************************)
ViewBox(width, zoom) == [width |-> width, zoom |-> zoom]

\* fitDrawing(): drawingWidth = max(bBox.width, bBox.height), viewBox 0 0 width width
fitDrawing(f) ==
    [f EXCEPT !.drawingWidth = "bBox", !.viewBox = ViewBox("bBox", Rat(1, 1))]

\* zoomDrawing(zoom)
zoomDrawing(f, zoom) == [f EXCEPT !.viewBox = ViewBox(f.drawingWidth, zoom)]

\* the level left as the sum gives it
unclamped(level) == level

\* Math.max(0.1, Math.min(zoomLevel, 5))
clampedZoom(level) == NumMax(Rat(1, 10), NumMin(level, Rat(5, 1)))

\* zoomLevel += event.deltaY * 0.001
zoomedBy(level, deltaY) == clampedZoom(NumAdd(level, NumMul(Rat(deltaY, 1), Rat(1, 1000))))

\* the wheel listener of the SVG element
wheel(f, deltaY) ==
    zoomDrawing([f EXCEPT !.zoomLevel = zoomedBy(@, deltaY)], zoomedBy(f.zoomLevel, deltaY))

\* getSVG(download): fitDrawing(), then the serialized element
getSVG(f) == fitDrawing(f)

(***************************************************************************)
(* The configurations explored and the calls made on a VectorBloom object. *)
(***************************************************************************)
MaxCalls == 2

\* a petal geometry with the three crucial fields and nothing else
PetalShape(width, count, length) ==
    [ width |-> width, count |-> count, length |-> length,
      innerWidth |-> Undefined, outerWidth |-> Undefined, angleOffset |-> Undefined,
      radialOffset |-> Omitted, balance |-> Omitted, smoothing |-> Omitted,
      extendOutside |-> FALSE, offsetX |-> Omitted, offsetY |-> Omitted ]

\* a geometry with every field supplied, three of them as 0
SuppliedShape ==
    [ width |-> 18, count |-> 1, length |-> Rat(2, 1),
      innerWidth |-> 0, outerWidth |-> 30, angleOffset |-> 0,
      radialOffset |-> Rat(1, 4), balance |-> Zero, smoothing |-> Rat(1, 2),
      extendOutside |-> FALSE, offsetX |-> Zero, offsetY |-> Zero ]

SuppliedFill ==
    [present |-> TRUE, color |-> << 0, Tenths >>, strokeColor |-> "#ff0000",
     strokeWidth |-> 0, shadow |-> TRUE, blur |-> 4]

\* a fill of the center with a shadow and a stroke
ShadedFill(strokeColor) ==
    [present |-> TRUE, color |-> << Tenths >>, strokeColor |-> strokeColor,
     strokeWidth |-> 1, shadow |-> TRUE, blur |-> 2]

PetalGroup(geometry, fill) == [geometry |-> geometry, fill |-> fill]

\* a group with the crucial fields only, to be filled with the defaults
BarePetals == PetalGroup(PetalShape(18, 2, Rat(24, 1)), PlainFill)

\* a group with every field supplied
SuppliedPetals == PetalGroup(SuppliedShape, SuppliedFill)

\* groups with width, count or length missing or 0
WidthlessPetals == PetalGroup(PetalShape(Undefined, 2, Rat(24, 1)), PlainFill)

CountlessPetals == PetalGroup(PetalShape(18, Undefined, Rat(24, 1)), PlainFill)

ZeroCountPetals == PetalGroup(PetalShape(18, 0, Rat(24, 1)), PlainFill)

LengthlessPetals == PetalGroup(PetalShape(18, 1, Omitted), PlainFill)

CenterGeometry(density, range, age, size) ==
    [ age |-> age, range |-> range, density |-> density, size |-> size ]

CenterFill(background) ==
    [present |-> TRUE, base |-> PlainFill, tip |-> PlainFill, background |-> background]

\* a fill of the center with shadows on the bases and on the tips
ShadedCenterFill(background) ==
    [present |-> TRUE, base |-> ShadedFill("#00ff00"), tip |-> ShadedFill("#0000ff"),
     background |-> background]

NoCenterFill == [present |-> FALSE, base |-> NoFill, tip |-> NoFill, background |-> ""]

ArrangementConfig(geometry, fill) == [geometry |-> geometry, fill |-> fill]

OuterArrangement ==
    ArrangementConfig(CenterGeometry(4, <<0, 4>>, <<4, 8>>, <<1, 5>>), CenterFill("#fc0"))

InnerArrangement ==
    ArrangementConfig(CenterGeometry(4, <<0, 2>>, <<4, 8>>, <<8, 1>>), ShadedCenterFill("#630"))

BareArrangement ==
    ArrangementConfig(CenterGeometry(4, <<0, 4>>, <<4, 8>>, <<1, 5>>), CenterFill(""))

Configuration(petalList, rad, arrangementList) ==
    [ hasPetals |-> TRUE, petals |-> petalList, hasCenter |-> TRUE,
      center |-> [radius |-> rad, arrangement |-> arrangementList] ]

\* a configuration with neither petals nor center
EmptyConfiguration ==
    [ hasPetals |-> FALSE, petals |-> << >>, hasCenter |-> FALSE,
      center |-> [radius |-> 0, arrangement |-> << >>] ]

\* the configuration of the usage example: no fill anywhere (density 5.08
\* and range [0, 0.85] stand as 5 and [0, 0.75])
UsageConfiguration ==
    Configuration(<< PetalGroup(PetalShape(18, 18, Rat(242, 1)), NoFill) >>, 180,
                  << ArrangementConfig(CenterGeometry(5, <<0, 3>>, <<4, 8>>, <<1, 5>>),
                                       NoCenterFill) >>)

\* the usage example with filled petals: the arrangement alone has no fill
UsagePetalsFilled ==
    [UsageConfiguration EXCEPT !.petals[1].geometry.count = 2, !.petals[1].fill = PlainFill]

\* a group without fill before a complete group
UnfilledFirst ==
    Configuration(<< PetalGroup(PetalShape(18, 2, Rat(24, 1)), NoFill),
                     PetalGroup(PetalShape(18, 2, Rat(24, 1)), PlainFill) >>, RangeDen, << >>)

\* the configurations explored, all with center radius RangeDen but the usage example
Configurations ==
    { Configuration(<< BarePetals, SuppliedPetals >>, RangeDen,
                    << InnerArrangement, OuterArrangement >>),
      Configuration(<< SuppliedPetals >>, RangeDen, << OuterArrangement, InnerArrangement >>),
      Configuration(<< WidthlessPetals, BarePetals >>, RangeDen, << BareArrangement >>),
      Configuration(<< CountlessPetals, SuppliedPetals >>, RangeDen, << OuterArrangement >>),
      Configuration(<< LengthlessPetals, ZeroCountPetals >>, RangeDen, << >>),
      Configuration(<< ZeroCountPetals >>, RangeDen, << InnerArrangement >>),
      Configuration(<< >>, RangeDen, << OuterArrangement, BareArrangement >>),
      UsageConfiguration, UsagePetalsFilled, UnfilledFirst, EmptyConfiguration }

NoFlower ==
    [ petals |-> << >>, center |-> << >>, backgrounds |-> << >>, generation |-> 0,
      groups |-> [petals |-> 0, center |-> 0], highlighted |-> {},
      drawn |-> << >>, defs |-> {}, styles |-> {},
      zoomLevel |-> Rat(1, 1), drawingWidth |-> "DEFAULT_PAGE_SIZE",
      viewBox |-> ViewBox("DEFAULT_PAGE_SIZE", Rat(1, 1)),
      maxWidth |-> InitialWidth, lastCall |-> Call("", 0, FALSE), calls |-> 0 ]

InitFlower ==
    /\ pc = "new"
    /\ original \in Configurations
    /\ config = original
    /\ flower = NoFlower
    /\ petalGeometry = NoPetalGeometry
    /\ arrangement = NoArrangement
    /\ radius = 0
    /\ offset = 0
    /\ i = 0
    /\ petals = <<>>
    /\ n = Zero
    /\ currentRadius = Zero
    /\ angle = Angle(Zero, 0)
    /\ centerArrangement = NoCenter
    /\ florets = <<>>
    /\ NotSmoothing

\* what the constructor leaves when FillDefaults has returned:
\* createElements(), and drawSVG(container) and fitDrawing() when a
\* container was passed
constructed(c, container) ==
    [ (IF container THEN fitDrawing(drawSVG(createElements(NoFlower, c), c))
       ELSE createElements(NoFlower, c))
      EXCEPT !.lastCall = Call("constructor", 0, FALSE) ]

\* new VectorBloom(config, container): a throw of FillDefaults leaves no object
Construct ==
    /\ pc = "new"
    /\ \E container \in BOOLEAN : \E filled \in { FillDefaults(config) } :
          /\ config' = filled.value
          /\ pc' = IF filled.thrown THEN "thrown" ELSE "constructed"
          /\ flower' = IF filled.thrown THEN flower ELSE constructed(filled.value, container)
    /\ UNCHANGED original
    /\ UNCHANGED Calls
    /\ UNCHANGED Smoothing

\* a method called on the object returns or throws: the object it leaves
Called(name, index, result) ==
    /\ flower' = [result EXCEPT !.calls = @ + 1,
                                !.lastCall = Call(name, index, result.lastCall.threw)]
    /\ UNCHANGED << pc, original, config >>
    /\ UNCHANGED Calls
    /\ UNCHANGED Smoothing

NotThrown(f) == [f EXCEPT !.lastCall.threw = FALSE]

\* a method can be called on an object the constructor has returned
Callable == pc = "constructed" /\ flower.calls < MaxCalls

\* the indexes a caller passes: in range, one below and one above
Indexes == -1..2

CreateElements ==
    /\ Callable
    /\ Called("createElements", 0, NotThrown(createElements(flower, config)))

DrawSVG ==
    /\ Callable
    /\ Called("drawSVG", 0, drawSVG(NotThrown(flower), config))

UpdateDrawingSize ==
    /\ Callable
    /\ Called("updateDrawingSize", 0, NotThrown(updateDrawingSize(flower)))

HighlightPetal ==
    /\ Callable
    /\ \E index \in Indexes :
          Called("highlightPetal", index, highlightPetal(flower, config, index))

UnhighlightPetal ==
    /\ Callable
    /\ \E index \in Indexes :
          Called("unhighlightPetal", index, unhighlightPetal(flower, config, index))

HighlightCenter ==
    /\ Callable
    /\ \E index \in Indexes :
          Called("highlightCenter", index, highlightCenter(flower, config, index))

UnhighlightCenter ==
    /\ Callable
    /\ \E index \in Indexes :
          Called("unhighlightCenter", index, unhighlightCenter(flower, config, index))

NextFlower ==
    \/ Construct
    \/ CreateElements
    \/ DrawSVG
    \/ UpdateDrawingSize
    \/ HighlightPetal
    \/ UnhighlightPetal
    \/ HighlightCenter
    \/ UnhighlightCenter

\* the constructor and the methods of one VectorBloom object
SpecFlower == InitFlower /\ [][NextFlower]_vars

(***************************************************************************)
(* The wheel events on the SVG element of one VectorBloom object, any      *)
(* number of them, among up to MaxCalls drawing, fitting and export calls. *)
(***************************************************************************)
\* the deltaY of the wheel events explored: small and large, both ways
Deltas == { -10000, -1500, 1500, 10000 }

\* the configurations of the objects that are zoomed
ZoomedConfigurations ==
    { Configuration(<< BarePetals, SuppliedPetals >>, RangeDen,
                    << InnerArrangement, OuterArrangement >>),
      Configuration(<< >>, RangeDen, << >>) }

InitZoom == InitFlower /\ original \in ZoomedConfigurations

\* a wheel event is dispatched to the listener the constructor added
WheelEvent ==
    /\ pc = "constructed"
    /\ \E deltaY \in Deltas :
          flower' = [wheel(flower, deltaY) EXCEPT !.lastCall = Call("wheel", deltaY, FALSE)]
    /\ UNCHANGED << pc, original, config >>
    /\ UNCHANGED Calls
    /\ UNCHANGED Smoothing

FitDrawing ==
    /\ Callable
    /\ Called("fitDrawing", 0, NotThrown(fitDrawing(flower)))

GetSVG ==
    /\ Callable
    /\ \E download \in BOOLEAN :
          Called("getSVG", IF download THEN 1 ELSE 0, NotThrown(getSVG(flower)))

NextZoom ==
    \/ Construct
    \/ WheelEvent
    \/ CreateElements
    \/ DrawSVG
    \/ FitDrawing
    \/ GetSVG

\* the object under wheel events and drawing, fitting and export calls
SpecZoom == InitZoom /\ [][NextZoom]_vars

(***************************************************************************)
(* The smoothing of one petal, node by node.  createPetal applies          *)
(* ApplySmoothing to the nodes in the order of forEach; here the nodes are *)
(* taken in every order, one ApplySmoothing call per step, and the path is *)
(* compiled when every node has been smoothed.                             *)
(***************************************************************************)
\* the geometries whose petals are smoothed: one or two petals
SmoothedGeometries ==
    { g \in PetalGeometries : /\ g.count \in 1..2 /\ Truthy(g.smoothing)
                              /\ IsZero(g.offsetY) /\ ~g.extendOutside }

\* const petal = new VectorBloomPath(petalNodes), for the petal at the offset
createdPetal ==
    VectorBloomPath(petalNodes(petalGeometry, petalRadius(petalGeometry, Rat(radius, 1)), offset))

\* index === 0 ? petal.nodes[petal.nodes.length - 1] : petal.nodes[index - 1]
fromNode(nodes, index) == IF index = 1 THEN Len(nodes) ELSE index - 1

InitSmoothing ==
    /\ pc = "smoothing"
    /\ petalGeometry \in SmoothedGeometries
    /\ arrangement = NoArrangement
    /\ radius \in Radii
    /\ i \in 0..(petalGeometry.count - 1)
    /\ offset = ToRadian(petalGeometry.angleOffset, 1) + i * petalStep(petalGeometry)
    /\ petals = <<>>
    /\ n = Zero
    /\ currentRadius = Zero
    /\ angle = Angle(Zero, 0)
    /\ centerArrangement = NoCenter
    /\ florets = <<>>
    /\ original = <<>>
    /\ config = <<>>
    /\ flower = <<>>
    /\ smoothingPetal = createdPetal
    /\ smoothedIndexes = {}

\* ApplySmoothing(node, fromNode, petalGeometry.smoothing) of one node not yet smoothed
SmoothNode ==
    /\ pc = "smoothing"
    /\ \E index \in (1..Len(smoothingPetal.nodes)) \ smoothedIndexes :
          /\ smoothingPetal' =
                [smoothingPetal EXCEPT !.nodes[index] =
                    ApplySmoothing(smoothingPetal.nodes, index,
                                   fromNode(smoothingPetal.nodes, index),
                                   petalGeometry.smoothing)]
          /\ smoothedIndexes' = smoothedIndexes \cup { index }
    /\ UNCHANGED pc
    /\ UNCHANGED Calls
    /\ UNCHANGED Bloom

\* petal.compilePathData(), every node smoothed
CompileSmoothed ==
    /\ pc = "smoothing"
    /\ smoothedIndexes = 1..Len(smoothingPetal.nodes)
    /\ smoothingPetal' = compilePathData(smoothingPetal)
    /\ pc' = "done"
    /\ UNCHANGED smoothedIndexes
    /\ UNCHANGED Calls
    /\ UNCHANGED Bloom

NextSmoothing ==
    \/ SmoothNode
    \/ CompileSmoothed

\* the smoothing of one petal, its nodes in any order
SpecSmoothing == InitSmoothing /\ [][NextSmoothing]_vars

(***************************************************************************)
(* Properties.                                                             *)
(***************************************************************************)
AllPaths ==
    { petals[k] : k \in 1..Len(petals) }
    \cup { centerArrangement.bases[k] : k \in 1..Len(centerArrangement.bases) }
    \cup { centerArrangement.tips[k] : k \in 1..Len(centerArrangement.tips) }

Successor(k, j) == (j % k) + 1

IsRing(path) ==
    \A j \in 1..Len(path.nodes) :
        path.nodes[j].curveTo = Successor(Len(path.nodes), j)

\* the angle, in units, of the last polar vector added to a node's position
NodeAngle(node) == node.position.terms[Len(node.position.terms)].angle.u

\* C1: createPetals returns, for count = N, exactly N closed paths of 8 nodes
\* each, the k-th (k = 0..N-1) anchored at angleOffset (in radians) + k*2*PI/N:
\* its notch node and its tip node lie on that angle.
C1_PetalsCountAndAnchors ==
    /\ (pc = "done" => Len(petals) = petalGeometry.count)
    /\ \A k \in 1..Len(petals) :
          /\ Len(petals[k].nodes) = 8
          /\ IsRing(petals[k])
          /\ petals[k].d[Len(petals[k].d)].t = "Z"
          /\ NodeAngle(petals[k].nodes[2]) * petalGeometry.count * 180
               = petalGeometry.angleOffset * HalfTurn * petalGeometry.count
                 + (k - 1) * 2 * HalfTurn * 180
          /\ NodeAngle(petals[k].nodes[6]) = NodeAngle(petals[k].nodes[2])

C1_Witness ==
    /\ pc = "done"
    /\ Len(petals) = 3
    /\ petalGeometry.angleOffset = 30

RECURSIVE Walk(_, _, _)
Walk(path, j, steps) ==
    IF steps = 0 THEN j ELSE Walk(path, path.nodes[j].curveTo, steps - 1)

\* C2: every path built from k nodes is a closed ring: node[i].curveTo is
\* node[(i+1) mod k], no curveTo is null, and following curveTo from any node
\* visits every node once and is back at the start after exactly k steps.
C2_ClosedRing ==
    \A path \in AllPaths :
        LET k == Len(path.nodes)
        IN  /\ k >= 1
            /\ \A j \in 1..k : path.nodes[j].curveTo \in 1..k
            /\ IsRing(path)
            /\ \A j \in 1..k :
                  /\ { Walk(path, j, steps) : steps \in 0..(k - 1) } = 1..k
                  /\ Walk(path, j, k) = j

C2_Witness ==
    /\ Len(petals) >= 1
    /\ petals[1].nodes[8].curveTo = 1

\* segment j of a compiled path, by the positions of the nodes in the list
SegmentOf(nodes, j) ==
    << Tok("pt", nodes[j].controlPoint2),
       Tok("pt", nodes[Successor(Len(nodes), j)].controlPoint1),
       Tok("pt", nodes[Successor(Len(nodes), j)].position) >>

\* C3: the compiled string of a path of k nodes is a move to node[0].position,
\* then exactly k segments and a close; segment i is (node[i].controlPoint2,
\* node[(i+1) mod k].controlPoint1, node[(i+1) mod k].position), so the last
\* segment ends at node[0].position.
C3_CompiledSegments ==
    \A path \in AllPaths :
        LET k == Len(path.nodes)
        IN  /\ Len(path.d) = 3 * k + 4
            /\ path.d[1] = Cmd("M")
            /\ path.d[2] = Tok("pt", path.nodes[1].position)
            /\ path.d[3] = Cmd("C")
            /\ \A j \in 1..k :
                  SubSeq(path.d, 3 * j + 1, 3 * j + 3) = SegmentOf(path.nodes, j)
            /\ path.d[3 * k + 3] = Tok("pt", path.nodes[1].position)
            /\ path.d[3 * k + 4] = Cmd("Z")

\* a smoothed petal: its control points differ from its positions
C3_Witness ==
    /\ Len(petals) >= 2
    /\ petals[2].nodes[1].controlPoint2 # petals[2].nodes[1].position
    /\ petals[2].d[4] = Tok("pt", petals[2].nodes[1].controlPoint2)

\* C4: after construction and after every compilePathData() call the path's
\* pathData member holds the compiled string, the element's d attribute.
C4_PathDataHoldsCompiled ==
    \A path \in AllPaths :
        /\ path.pathData.defined
        /\ path.pathData.value = path.d

BaseOf(j) == centerArrangement.bases[florets[j].base]

\* C5: the base shape is chosen by age, the boundary on the upper branch: a
\* floret of age < 0.5 has a base of 4 nodes, a floret of age >= 0.5 (0.5
\* included) a base of 10 nodes, and every floret has exactly one base.
C5_BaseByAge ==
    /\ Len(centerArrangement.bases) = Len(florets)
    /\ \A j \in 1..Len(florets) :
          /\ florets[j].base = j
          /\ NumLt(florets[j].age, Rat(1, 2)) => Len(BaseOf(j).nodes) = 4
          /\ NumLe(Rat(1, 2), florets[j].age) => Len(BaseOf(j).nodes) = 10

\* a floret of age exactly 0.5, radiating
C5_Witness ==
    \E j \in 1..Len(florets) :
        /\ florets[j].age = Rat(1, 2)
        /\ Len(BaseOf(j).nodes) = 10

\* the florets that have a tip, in the order of the loop
WithTip == SelectSeq(florets, LAMBDA f : f.tip # 0)

\* C6: a floret has a tip, a path of 7 nodes, if and only if its age is
\* strictly greater than 0.7; age 0.7 and every age below it give no tip.
C6_TipIffOlder ==
    /\ Len(centerArrangement.tips) = Len(WithTip)
    /\ \A j \in 1..Len(florets) :
          /\ (florets[j].tip # 0) <=> NumLt(Rat(7, 10), florets[j].age)
          /\ florets[j].tip # 0 =>
                Len(centerArrangement.tips[florets[j].tip].nodes) = 7
          /\ NumLe(florets[j].age, Rat(7, 10)) => florets[j].tip = 0

\* a floret of age exactly 0.7, without a tip
C6_Witness ==
    \E j \in 1..Len(florets) :
        /\ florets[j].age = Rat(7, 10)
        /\ florets[j].tip = 0
        /\ florets[j].base # 0

\* range[j] * centerRadius, as the configuration states it
RangeRadius(j) == Rat(arrangement.range[j] * radius, RangeDen)

\* n0 = (range[0] * centerRadius / density)^2, 0 when range[0] is 0
StartIndex ==
    IF arrangement.range[1] = 0
    THEN Zero
    ELSE Rat((arrangement.range[1] * radius) * (arrangement.range[1] * radius),
             (RangeDen * arrangement.density) * (RangeDen * arrangement.density))

C8_StopsAtFirstBeyond ==
    /\ pc = "centerLoop" =>
          \A j \in 1..Len(florets) : NumLt(florets[j].radius, RangeRadius(2))
    /\ (pc = "done" /\ arrangement # NoArrangement) =>
          /\ Len(florets) >= 1
          /\ NumLe(RangeRadius(2), florets[Len(florets)].radius)
          /\ \A j \in 1..(Len(florets) - 1) :
                NumLt(florets[j].radius, RangeRadius(2))

Between(low, x, high) ==
    \/ NumLe(low, x) /\ NumLe(x, high)
    \/ NumLe(high, x) /\ NumLe(x, low)

\* C9: every floret lies inside the configured occupancy range: its radius r
\* satisfies range[0] * centerRadius <= r <= range[1] * centerRadius, its ratio
\* is in [0, 1], its age and its size lie between the two configured values.
\* Stated for a center of positive radius and a range that is a proper interval.
C9_InsideOccupancyRange ==
    (radius > 0 /\ arrangement.range[1] < arrangement.range[2]) =>
        \A j \in 1..Len(florets) :
            /\ NumLe(RangeRadius(1), florets[j].radius)
            /\ NumLe(florets[j].radius, RangeRadius(2))
            /\ Between(Zero, florets[j].ratio, Rat(1, 1))
            /\ Between(AgeValue(arrangement, 1), florets[j].age, AgeValue(arrangement, 2))
            /\ Between(SizeValue(arrangement, 1), florets[j].size, SizeValue(arrangement, 2))

\* a call that has not returned can take its next step: the loop of createCenter
\* has room for the paths of one more iteration
CanStep ==
    \/ pc \in {"createPetals", "petalLoop", "createCenter"}
    \/ pc = "centerLoop" /\ Len(florets) < MaxFlorets

\* C10: generation always terminates: for every numeric density, every range
\* within [0, 1], every finite count and every radius, the loop of createCenter
\* and the loop of createPetals finish after finitely many steps, so no call
\* is left unable to return.
C10_Terminates == pc = "done" \/ CanStep

(***************************************************************************)
(* Properties of the VectorBloom object (SpecFlower).                      *)
(***************************************************************************)
Built == pc = "constructed"

Groups == Len(config.petals)

ArrangementCount == Len(config.center.arrangement)

\* C11: after createElements with P petal groups and A arrangements,
\* petals[i] is what createPetals makes of config.petals[P-1-i] and center[i]
\* what createCenter makes of config.center.arrangement[A-1-i]: the first
\* configured is last, the last configured is first.
C11_ReverseOrder ==
    Built =>
       /\ Len(flower.petals) = Groups
       /\ Len(flower.center) = ArrangementCount
       /\ \A k \in 1..Groups :
             flower.petals[k].paths =
                createPetals(config.petals[Groups + 1 - k], config.center.radius)
       /\ \A k \in 1..ArrangementCount :
             /\ flower.center[k].bases =
                   createCenter(config.center.arrangement[ArrangementCount + 1 - k].geometry,
                                config.center.radius).bases
             /\ flower.center[k].tips =
                   createCenter(config.center.arrangement[ArrangementCount + 1 - k].geometry,
                                config.center.radius).tips

\* a flower regenerated by createElements whose two petal groups and two
\* arrangements differ and are non-empty
C11_Witness ==
    /\ Built
    /\ flower.lastCall.name = "createElements"
    /\ Groups = 2 /\ ArrangementCount = 2
    /\ Len(flower.petals[1].paths) > 0 /\ Len(flower.petals[2].paths) > 0
    /\ flower.petals[1].paths # flower.petals[2].paths
    /\ flower.center[1].bases # flower.center[2].bases
    /\ flower.petals[2].paths = createPetals(config.petals[1], config.center.radius)

\* the list of petals made of the configured group k
PetalsOfGroup(k) == flower.petals[Groups + 1 - k].paths

\* C12: a petal group whose geometry has width, count or length missing or
\* falsy produces no petals (an empty list), and neither the constructor nor
\* createElements throws because of it.
C12_NoPetalsWithoutCrucial ==
    (Built /\ flower.lastCall.name \in {"constructor", "createElements"}) =>
       /\ ~flower.lastCall.threw
       /\ \A k \in 1..Groups :
             crucialMissing(config.petals[k].geometry) => PetalsOfGroup(k) = << >>

\* a number of degrees as FillDefaults must leave it: the supplied value, or
\* the default when it was left out
DegreesFilled(before, after, default) ==
    after = (IF before = Undefined THEN default ELSE before)

\* the same of any other number
NumberFilled(before, after, default) ==
    after = (IF before.k = "undefined" THEN default ELSE before)

\* the geometry after FillDefaults, field by field, against the geometry before
BackFilled(before, after) ==
    /\ after.width = before.width /\ after.count = before.count /\ after.length = before.length
    /\ after.extendOutside = before.extendOutside
    /\ DegreesFilled(before.outerWidth, after.outerWidth, before.width)
    /\ DegreesFilled(before.innerWidth, after.innerWidth, before.width)
    /\ DegreesFilled(before.angleOffset, after.angleOffset, 0)
    /\ NumberFilled(before.radialOffset, after.radialOffset, Zero)
    /\ NumberFilled(before.balance, after.balance, Rat(1, 2))
    /\ NumberFilled(before.smoothing, after.smoothing, Zero)
    /\ NumberFilled(before.offsetX, after.offsetX, Zero)
    /\ NumberFilled(before.offsetY, after.offsetY, Zero)

\* FillDefaults has been called on the configuration
Filled == pc \in {"constructed", "thrown"}

\* C13: after FillDefaults, every petal group with truthy width, count and
\* length has each omitted optional geometry field at its default (outerWidth
\* and innerWidth = width, angleOffset 0, radialOffset 0, balance 0.5,
\* smoothing 0, offsetX 0, offsetY 0) and each supplied value, 0 included,
\* unchanged; and a further FillDefaults changes nothing.
C13_FillDefaultsBackFills ==
    Filled =>
       /\ \A k \in 1..Len(original.petals) :
             ~crucialMissing(original.petals[k].geometry) =>
                 BackFilled(original.petals[k].geometry, config.petals[k].geometry)
       /\ FillDefaults(config).value = config

\* C14: constructing a VectorBloom from the configuration of the usage
\* example (one petal group with width, count and length only, one
\* arrangement with its geometry only, no fill anywhere) completes without
\* error and yields the 18 petals of the one group and a center with bases
\* and with tips.
C14_UsageExampleConstructs ==
    (original = UsageConfiguration /\ pc # "new") =>
       /\ pc = "constructed"
       /\ Len(flower.petals) = 1
       /\ Len(flower.petals[1].paths) = 18
       /\ Len(flower.center) = 1
       /\ Len(flower.center[1].bases) > 0
       /\ Len(flower.center[1].tips) > 0

\* the count the index of a highlighting call is compared with
CountFor(name) ==
    IF name \in {"highlightPetal", "unhighlightPetal"} THEN Groups ELSE ArrangementCount

\* a step that is a call of one of the four highlighting methods with an
\* index outside the configured range
OutOfRangeHighlighting ==
    /\ Built
    /\ flower'.calls = flower.calls + 1
    /\ flower'.lastCall.name \in
          {"highlightPetal", "unhighlightPetal", "highlightCenter", "unhighlightCenter"}
    /\ \/ flower'.lastCall.index >= CountFor(flower'.lastCall.name)
       \/ flower'.lastCall.index < 0

\* C15: highlightPetal, unhighlightPetal, highlightCenter and
\* unhighlightCenter called with an index >= the configured count or < 0, on
\* a flower drawn or not, change no class list and raise no error.
C15_OutOfRangeHighlightIsNoOp ==
    [][OutOfRangeHighlighting =>
          (flower'.highlighted = flower.highlighted /\ ~flower'.lastCall.threw)]_vars

\* the arrangements with a truthy fill.background
WithBackground ==
    { k \in 1..ArrangementCount : config.center.arrangement[k].fill.background # "" }

\* the numbers of the createElements calls that allocated the objects f holds
Generations(f) ==
    { f.petals[k].made : k \in 1..Len(f.petals) }
    \cup { f.center[k].made : k \in 1..Len(f.center) }
    \cup { f.backgrounds[k].made : k \in 1..Len(f.backgrounds) }

\* a step that is a createElements() call on a constructed object
Regenerating ==
    /\ Built
    /\ flower'.calls = flower.calls + 1
    /\ flower'.lastCall.name = "createElements"

\* C16: a createElements call with the configuration unchanged leaves one
\* list of petals per group, one center entry per arrangement and one disc
\* per arrangement with a background; every path has the nodes, coordinates
\* and control points it had in the generation before (so, in the first);
\* and every list, path and disc is a fresh object of this call.
C16_RegenerationIdempotent ==
    [][Regenerating =>
          /\ Len(flower'.petals) = Groups
          /\ Len(flower'.center) = ArrangementCount
          /\ Len(flower'.backgrounds) = Cardinality(WithBackground)
          /\ \A k \in 1..Groups : flower'.petals[k].paths = flower.petals[k].paths
          /\ \A k \in 1..ArrangementCount :
                /\ flower'.center[k].bases = flower.center[k].bases
                /\ flower'.center[k].tips = flower.center[k].tips
          /\ \A k \in 1..Len(flower'.backgrounds) :
                flower'.backgrounds[k].r = flower.backgrounds[k].r
          /\ Generations(flower') \cap Generations(flower) = {}
          /\ Generations(flower') \subseteq {flower'.generation}]_vars

\* a flower with petals, florets and discs generated for the third time
C16_Witness ==
    /\ Built
    /\ flower.generation = 3
    /\ flower.lastCall.name = "createElements"
    /\ Groups = 2 /\ Len(flower.petals) = 2 /\ Len(flower.petals[1].paths) > 0
    /\ Len(flower.center) = 2 /\ Len(flower.center[1].bases) > 0
    /\ Len(flower.backgrounds) = 2
    /\ Generations(flower) = {3}

\* R + radialOffset * R of the configured group k, from config.center.radius
EffectiveRadius(k) ==
    NumAdd(Rat(config.center.radius, 1),
           NumMul(IF isNull(config.petals[k].geometry.radialOffset)
                  THEN Zero ELSE config.petals[k].geometry.radialOffset,
                  Rat(config.center.radius, 1)))

\* the distance from the center offset at which a petal's second node lies:
\* centerRadius - 10
InnerDistance(path) == path.nodes[2].position.terms[1].d.v

\* the petals of a flower configured with group k alone
PetalsAlone(k) ==
    petalsOfGroups([config EXCEPT !.petals = << config.petals[k] >>], 0)[1].paths

\* the florets of a flower configured with arrangement k alone
CenterAlone(k) ==
    centersOfArrangements([config EXCEPT !.center.arrangement = << config.center.arrangement[k] >>], 0)[1]

\* C17: generation reads the configuration and never writes it (after
\* FillDefaults the configuration object stays as it is through every call),
\* and the petals of every group lie at the effective radius R +
\* radialOffset * R computed from the one config.center.radius, whatever
\* groups were generated before it; after createElements the paths of a
\* group or arrangement are those of a flower configured with it alone.
C17_ConfigReadOnly ==
    [][Built =>
          /\ config' = config
          /\ \A k \in 1..Groups :
                \A p \in 1..Len(flower'.petals[Groups + 1 - k].paths) :
                   InnerDistance(flower'.petals[Groups + 1 - k].paths[p])
                      = NumSub(EffectiveRadius(k), Rat(10, 1))
          /\ Regenerating =>
                /\ \A k \in 1..Groups :
                      flower'.petals[Groups + 1 - k].paths = PetalsAlone(k)
                /\ \A k \in 1..ArrangementCount :
                      /\ flower'.center[ArrangementCount + 1 - k].bases
                            = CenterAlone(k).bases
                      /\ flower'.center[ArrangementCount + 1 - k].tips
                            = CenterAlone(k).tips]_vars

\* a regenerated flower of two groups with petals, the second configured
\* after a group with a radialOffset that is not 0
C17_Witness ==
    /\ Built
    /\ flower.lastCall.name = "createElements"
    /\ Groups = 2
    /\ Len(PetalsOfGroup(1)) > 0 /\ Len(PetalsOfGroup(2)) > 0
    /\ \E k \in 1..2 : EffectiveRadius(k) # Rat(config.center.radius, 1)
    /\ \E k \in 1..2 : EffectiveRadius(k) = Rat(config.center.radius, 1)

\* centerRadius * max(range[0], range[1]) of the configured arrangement k
ExpectedDiscRadius(k) ==
    NumMul(Rat(config.center.radius, 1),
           IF config.center.arrangement[k].geometry.range[1]
                 > config.center.arrangement[k].geometry.range[2]
           THEN Rat(config.center.arrangement[k].geometry.range[1], RangeDen)
           ELSE Rat(config.center.arrangement[k].geometry.range[2], RangeDen))

\* the assignments of the discs to the arrangements with a background, one each
DiscAssignments ==
    { a \in [1..Len(flower.backgrounds) -> WithBackground] :
         \A k \in WithBackground : Cardinality({ d \in 1..Len(flower.backgrounds) : a[d] = k }) = 1 }

\* C18: after createElements, backgrounds holds exactly one disc for each
\* arrangement with a truthy fill.background, the disc of an arrangement has
\* radius centerRadius * max(range[0], range[1]) and its colour, and the
\* radii never increase along the list.
C18_BackgroundsSorted ==
    Built =>
       /\ \E a \in DiscAssignments :
             \A d \in 1..Len(flower.backgrounds) :
                /\ parseFloat(flower.backgrounds[d].r) = ExpectedDiscRadius(a[d])
                /\ flower.backgrounds[d].fill = config.center.arrangement[a[d]].fill.background
       /\ \A d \in 1..(Len(flower.backgrounds) - 1) :
             NumLe(parseFloat(flower.backgrounds[d + 1].r), parseFloat(flower.backgrounds[d].r))

\* a flower whose smaller disc is configured first: the sort has moved the
\* disc of the second arrangement to the front
C18_Witness ==
    /\ Built
    /\ ArrangementCount = 2
    /\ WithBackground = {1, 2}
    /\ NumLt(ExpectedDiscRadius(1), ExpectedDiscRadius(2))
    /\ Len(flower.backgrounds) = 2
    /\ flower.backgrounds[1].fill = config.center.arrangement[2].fill.background
    /\ flower.backgrounds[2].fill = config.center.arrangement[1].fill.background

\* the node positions of every petal path and of every center base and tip
AllPositions(f) ==
    UNION { positionsOf(f.petals[j].paths) : j \in 1..Len(f.petals) }
    \cup UNION { positionsOf(f.center[j].bases) : j \in 1..Len(f.center) }
    \cup UNION { positionsOf(f.center[j].tips) : j \in 1..Len(f.center) }

\* |c| <= maxWidth / 2, the squares compared
WithinHalf(c, width) == ~width.infinite /\ NumLe(NumMul(c, c), width.halfSquared)

\* translated by (maxWidth / 2, maxWidth / 2), the position is in the viewBox
InViewBox(position, width) ==
    /\ WithinHalf(xFrom(position, 1), width)
    /\ WithinHalf(yFrom(position, 1), width)

\* C19: after updateDrawingSize every node position of every petal path and
\* of every center base and tip has |x| <= maxWidth / 2 and |y| <= maxWidth / 2
\* (stated of the positions whose coordinates are evaluated: those made of
\* polar terms along the axes).
C19_ViewBoxContainsFlower ==
    (Built /\ flower.lastCall.name = "updateDrawingSize") =>
       \A position \in AllPositions(flower) :
          OnAxes(position) => InViewBox(position, flower.maxWidth)

\* every Path the flower holds: those createPetals and createCenter returned
FlowerPaths ==
    UNION { { flower.petals[j].paths[k] : k \in 1..Len(flower.petals[j].paths) } : j \in 1..Len(flower.petals) }
    \cup UNION { { flower.center[j].bases[k] : k \in 1..Len(flower.center[j].bases) } : j \in 1..Len(flower.center) }
    \cup UNION { { flower.center[j].tips[k] : k \in 1..Len(flower.center[j].tips) } : j \in 1..Len(flower.center) }

\* the petals of a configured group have control points away from their nodes
SmoothedGroup(k) ==
    /\ Truthy(config.petals[k].geometry.smoothing)
    /\ Len(PetalsOfGroup(k)) > 0
    /\ \E j \in 1..Len(PetalsOfGroup(k)[1].nodes) :
          PetalsOfGroup(k)[1].nodes[j].controlPoint2 # PetalsOfGroup(k)[1].nodes[j].position

\* C20: the d attribute of every Path returned by createPetals and
\* createCenter is the compilation of the positions and control points its
\* nodes have now, for petals with smoothing 0 and for petals whose control
\* points were smoothed after the path was constructed.
C20_CompiledFormCurrent ==
    Built => \A path \in FlowerPaths : path.d = pathString(path.nodes)

\* a flower with a smoothed group of petals, a group with smoothing 0 and a
\* center with bases and tips
C20_Witness ==
    /\ Built
    /\ Groups = 2
    /\ \E k \in 1..2 : SmoothedGroup(k)
    /\ \E k \in 1..2 :
          /\ IsZero(config.petals[k].geometry.smoothing)
          /\ Len(PetalsOfGroup(k)) > 0
    /\ \E j \in 1..Len(flower.center) :
          Len(flower.center[j].bases) > 0 /\ Len(flower.center[j].tips) > 0

(***************************************************************************)
(* Properties of the nodes of a petal and of a floret.                     *)
(***************************************************************************)
\* the effective center radius of the call: radius + radialOffset * radius
EffectiveCenterRadius ==
    NumAdd(Rat(radius, 1), NumMul(petalGeometry.radialOffset, Rat(radius, 1)))

\* R + length
OuterDistance == NumAdd(EffectiveCenterRadius, petalGeometry.length)

\* R + length * balance
BalanceDistance ==
    NumAdd(EffectiveCenterRadius, NumMul(petalGeometry.length, petalGeometry.balance))

\* (R + length) * (outerWidth / 2 degrees in radians), as a multiple of PI
TipExtension ==
    IF petalGeometry.extendOutside
    THEN NumMul(OuterDistance, Rat(petalGeometry.outerWidth, 2 * 180))
    ELSE Zero

\* the distances of the eight nodes from the offset point, in order
PetalDistances ==
    << Plain(EffectiveCenterRadius),
       Plain(NumSub(EffectiveCenterRadius, Rat(10, 1))),
       Plain(EffectiveCenterRadius),
       Plain(BalanceDistance),
       Plain(OuterDistance),
       Amount(OuterDistance, TipExtension),
       Plain(OuterDistance),
       Plain(BalanceDistance) >>

\* the anchor angle of the k-th petal, in units
AnchorOf(k) ==
    ToRadian(petalGeometry.angleOffset, 1) + (k - 1) * ((2 * HalfTurn) \div petalGeometry.count)

\* the angle of node j of the k-th petal, counted from the petal's anchor
AngularOffset(k, j) == NodeAngle(petals[k].nodes[j]) - AnchorOf(k)

\* node j of the k-th petal is one radial projection from the offset point
RadialFromOffset(k, j) ==
    /\ Len(petals[k].nodes[j].position.terms) = 1
    /\ petals[k].nodes[j].position.x = petalGeometry.offsetX
    /\ petals[k].nodes[j].position.y = petalGeometry.offsetY
    /\ petals[k].nodes[j].position.terms[1].d = PetalDistances[j]

\* C21: the 8 nodes of a petal come in the order inner-left, notch,
\* inner-right, right balance point, outer-right, tip, outer-left, left
\* balance point, at the distances R, R-10, R, R+length*balance, R+length,
\* R+length+extension, R+length, R+length*balance from the offset point; the
\* notch and the tip lie on the anchor angle, and the pairs 1/3, 4/8 and 5/7
\* have equal distances and opposite angular offsets, the left ones before
\* the anchor and the right ones after it.
C21_EightNodesSymmetric ==
    \A k \in 1..Len(petals) :
       /\ Len(petals[k].nodes) = 8
       /\ \A j \in 1..8 : RadialFromOffset(k, j)
       /\ AngularOffset(k, 2) = 0
       /\ AngularOffset(k, 6) = 0
       /\ AngularOffset(k, 1) = -AngularOffset(k, 3)
       /\ AngularOffset(k, 4) = -AngularOffset(k, 8)
       /\ AngularOffset(k, 5) = -AngularOffset(k, 7)
       /\ AngularOffset(k, 1) < 0
       /\ AngularOffset(k, 8) < 0
       /\ AngularOffset(k, 7) < 0

\* a call that returned three petals with a radial offset, a displaced
\* offset point and an extended tip
C21_Witness ==
    /\ pc = "done"
    /\ Len(petals) = 3
    /\ petalGeometry.extendOutside
    /\ petalGeometry.outerWidth = 30
    /\ ~IsZero(petalGeometry.radialOffset)
    /\ ~IsZero(petalGeometry.offsetY)
    /\ radius > 0
    /\ ~IsZero(petals[3].nodes[6].position.terms[1].d.pi)

\* degrees / 2, in units
HalfAngle(degrees) == (degrees * HalfTurn) \div (2 * 180)

\* C22 as stated: the two balance-point nodes of a petal (the 4th and the
\* 8th, at distance R + length*balance) lie at plus and minus the outer-width
\* half angle (outerWidth / 2 degrees) from the anchor angle.
C22_BalanceAtOuterHalfAngle ==
    \A k \in 1..Len(petals) :
       /\ petals[k].nodes[4].position.terms[1].d = Plain(BalanceDistance)
       /\ petals[k].nodes[8].position.terms[1].d = Plain(BalanceDistance)
       /\ AngularOffset(k, 4) = HalfAngle(petalGeometry.outerWidth)
       /\ AngularOffset(k, 8) = -HalfAngle(petalGeometry.outerWidth)

\* C22 amended: the two balance-point nodes of a petal lie at plus and minus
\* the half angle of width (width / 2 degrees) from the anchor angle; only
\* the outer nodes (5th and 7th) lie at the outer-width half angle.
C22_BalanceAtWidthHalfAngle ==
    \A k \in 1..Len(petals) :
       /\ petals[k].nodes[4].position.terms[1].d = Plain(BalanceDistance)
       /\ petals[k].nodes[8].position.terms[1].d = Plain(BalanceDistance)
       /\ AngularOffset(k, 4) = HalfAngle(petalGeometry.width)
       /\ AngularOffset(k, 8) = -HalfAngle(petalGeometry.width)
       /\ AngularOffset(k, 5) = HalfAngle(petalGeometry.outerWidth)
       /\ AngularOffset(k, 7) = -HalfAngle(petalGeometry.outerWidth)

\* a petal whose outer width is not its width
C22_Witness ==
    /\ Len(petals) >= 1
    /\ petalGeometry.outerWidth # petalGeometry.width
    /\ AngularOffset(1, 4) # AngularOffset(1, 5)

\* the node before node j in the list, the last before the first
Predecessor(nodes, j) == nodes[IF j = 1 THEN Len(nodes) ELSE j - 1]

\* controlPoint2 = position + t * (s * distance to the successor) and
\* controlPoint1 = position - t * (s * distance from the predecessor), t the
\* normalized sum of the unit directions predecessor -> node -> successor
AlongTangent(nodes, j, s) ==
    /\ nodes[j].controlPoint2 =
          TangentOffset(nodes[j].position, Predecessor(nodes, j).position, nodes[j].position,
                        nodes[nodes[j].curveTo].position, s,
                        << nodes[nodes[j].curveTo].position, nodes[j].position >>)
    /\ nodes[j].controlPoint1 =
          TangentOffset(nodes[j].position, Predecessor(nodes, j).position, nodes[j].position,
                        nodes[nodes[j].curveTo].position, NumNeg(s),
                        << nodes[j].position, Predecessor(nodes, j).position >>)

\* both control points on the position
Sharp(node) == node.controlPoint1 = node.position /\ node.controlPoint2 = node.position

\* the smoothing createPetals reads from the configured group k
SmoothingOf(k) == numbers(config.petals[k].geometry).smoothing

\* C23: in a petal smoothed with s > 0 every node has controlPoint2 =
\* position + t * (s * distance to successor) and controlPoint1 = position -
\* t * (s * distance from predecessor), t the tangent at the node, so that
\* the position lies between the two control points on one line; in a petal
\* with smoothing 0 every node keeps both control points on its position.
C23_ControlPointsAlongTangent ==
    Built =>
       \A k \in 1..Groups :
          \A p \in 1..Len(PetalsOfGroup(k)) :
             \A j \in 1..Len(PetalsOfGroup(k)[p].nodes) :
                IF Truthy(SmoothingOf(k))
                THEN AlongTangent(PetalsOfGroup(k)[p].nodes, j, SmoothingOf(k))
                ELSE Sharp(PetalsOfGroup(k)[p].nodes[j])

\* the center of the floret of iteration j: r along n * GOLDEN_RADIANS
FloretCenter(j) == PointPlusPolar(Origin, florets[j].angle, Plain(florets[j].radius))

\* min(size * 6, (0.5 / age) * size, r) of the floret of iteration j
PulledBy(j) ==
    NumMin(NumMin(NumMul(florets[j].size, Rat(6, 1)),
                  NumMul(NumDiv(Rat(1, 2), florets[j].age), florets[j].size)),
           florets[j].radius)

\* size * age when age >= 0.1, else 0
SleepingSmoothing(j) ==
    IF NumLe(Rat(1, 10), florets[j].age)
    THEN NumMul(florets[j].size, florets[j].age)
    ELSE Zero

\* node q (2, 3 or 4) of a sleeping base: at distance size from the floret
\* center, q - 1 quarter turns from the first node, its control points
\* smoothing away from it at right angles, on it when the smoothing is 0
QuarterNode(j, q) ==
    /\ BaseOf(j).nodes[q].position =
          PointPlusPolar(FloretCenter(j),
                         Turn(florets[j].angle, HalfTurn + (q - 1) * (HalfTurn \div 2)),
                         Plain(florets[j].size))
    /\ IF IsZero(SleepingSmoothing(j))
       THEN Sharp(BaseOf(j).nodes[q])
       ELSE /\ BaseOf(j).nodes[q].controlPoint1 =
                  PerpendicularOffset(BaseOf(j).nodes[q].position,
                                      Turn(florets[j].angle, HalfTurn + (q - 1) * (HalfTurn \div 2)),
                                      Plain(florets[j].size), Plain(SleepingSmoothing(j)))
            /\ BaseOf(j).nodes[q].controlPoint2 =
                  PerpendicularOffset(BaseOf(j).nodes[q].position,
                                      Turn(florets[j].angle, HalfTurn + (q - 1) * (HalfTurn \div 2)),
                                      Plain(florets[j].size),
                                      Plain(NumNeg(SleepingSmoothing(j))))

\* C24: the base of a floret of age < 0.5 at spiral radius r has its first
\* node pulled from the floret center toward the flower's center by
\* min(size*6, (0.5/age)*size, r), so never beyond the origin, with both
\* control points on it; its other three nodes lie at distance size from the
\* floret center, a quarter turn apart, smoothed by size*age when age >= 0.1
\* and not smoothed when age < 0.1.
C24_SleepingFloret ==
    \A j \in 1..Len(florets) :
       NumLt(florets[j].age, Rat(1, 2)) =>
          /\ Len(BaseOf(j).nodes) = 4
          /\ BaseOf(j).nodes[1].position =
                PointPlusPolar(FloretCenter(j), Turn(florets[j].angle, HalfTurn),
                               Plain(PulledBy(j)))
          /\ NumLe(PulledBy(j), florets[j].radius)
          /\ Sharp(BaseOf(j).nodes[1])
          /\ \A q \in 2..4 : QuarterNode(j, q)

\* a sleeping floret away from the origin, pulled by (0.5/age)*size, less
\* than its radius, and smoothed
C24_Witness ==
    \E j \in 1..Len(florets) :
       /\ NumLe(Rat(1, 10), florets[j].age)
       /\ NumLt(florets[j].age, Rat(1, 2))
       /\ NumLt(PulledBy(j), florets[j].radius)
       /\ NumLt(PulledBy(j), NumMul(florets[j].size, Rat(6, 1)))
       /\ ~Sharp(BaseOf(j).nodes[2])

\* every coordinate and distance of the point is a finite number, and the
\* point is not displaced along an undefined tangent
PointFinite(point) ==
    /\ IsFinite(point.x) /\ IsFinite(point.y)
    /\ \A s \in 1..Len(point.terms) :
          IsFinite(point.terms[s].d.v) /\ IsFinite(point.terms[s].d.pi)

NodeFinite(node) ==
    /\ PointFinite(node.position)
    /\ PointFinite(node.controlPoint1)
    /\ PointFinite(node.controlPoint2)

\* the call is made with a configuration that is not degenerate: a center
\* radius > 0 and, for createCenter, density > 0, 0 <= range[0] < range[1]
\* <= 1, sizes > 0 and ages in [0, 1]; for createPetals, width, count and
\* length > 0, balance and smoothing in [0, 1]
NonDegenerate ==
    /\ radius > 0
    /\ arrangement # NoArrangement =>
          /\ arrangement.density > 0
          /\ 0 <= arrangement.range[1]
          /\ arrangement.range[1] < arrangement.range[2]
          /\ arrangement.range[2] <= RangeDen
          /\ \A s \in 1..2 :
                /\ arrangement.size[s] > 0
                /\ arrangement.age[s] \in 0..Tenths
    /\ petalGeometry # NoPetalGeometry =>
          /\ petalGeometry.width > 0 /\ petalGeometry.count > 0
          /\ NumLt(Zero, petalGeometry.length)
          /\ Between(Zero, petalGeometry.balance, Rat(1, 1))
          /\ Between(Zero, petalGeometry.smoothing, Rat(1, 1))

\* C25: for every configuration that is not degenerate no step of petal or
\* center generation normalizes a vector of magnitude 0: no node position and
\* no control point of a generated path is NaN or infinite.
C25_NoNaNFromNormalize ==
    NonDegenerate =>
       \A path \in AllPaths :
          \A j \in 1..Len(path.nodes) : NodeFinite(path.nodes[j])

\* some coordinate of some node of the path is NaN or infinite
CarriesNonFinite(path) ==
    \E j \in 1..Len(path.nodes) : ~PointFinite(path.nodes[j].position)

\* createCenter was called with range[0] = range[1]
ZeroWidthRange ==
    /\ arrangement # NoArrangement
    /\ arrangement.range[1] = arrangement.range[2]

\* C26: for every arrangement with a zero-width occupancy range (range[0] =
\* range[1]) the radius ratio is a division by zero, createCenter returns
\* all the same, and the paths it returns carry NaN or infinite coordinates.
C26_ZeroWidthRangePassesThrough ==
    (ZeroWidthRange /\ pc = "done") =>
       /\ Len(florets) >= 1
       /\ \A j \in 1..Len(florets) : ~IsFinite(florets[j].ratio)
       /\ Len(centerArrangement.bases) >= 1
       /\ \A path \in AllPaths : CarriesNonFinite(path)

\* the florets generated so far whose age is greater than 0.7
OlderFlorets == { j \in 1..Len(florets) : NumLt(Rat(7, 10), florets[j].age) }

\* the number of florets without a tip
Tipless == Len(centerArrangement.bases) - Len(centerArrangement.tips)

\* createCenter runs with age[0] <= age[1], density > 0, range[0] < range[1]
OrderedArrangement ==
    /\ arrangement # NoArrangement
    /\ arrangement.age[1] <= arrangement.age[2]
    /\ arrangement.density > 0
    /\ arrangement.range[1] < arrangement.range[2]

\* C27: with age[0] <= age[1], density > 0 and range[0] < range[1], bases
\* has one entry per floret, tips one entry per floret of age > 0.7, so
\* |tips| <= |bases|, and the florets with tips are the last |tips| florets
\* generated: tips[j] and bases[|bases| - |tips| + j] are of one floret.
C27_TipsOnLastFlorets ==
    OrderedArrangement =>
       /\ Len(centerArrangement.bases) = Len(florets)
       /\ Len(centerArrangement.tips) = Cardinality(OlderFlorets)
       /\ Len(centerArrangement.tips) <= Len(centerArrangement.bases)
       /\ \A j \in 1..Len(centerArrangement.tips) :
             /\ florets[Tipless + j].tip = j
             /\ florets[Tipless + j].base = Tipless + j

\* a returned center whose first florets have no tip and whose last have
C27_Witness ==
    /\ OrderedArrangement
    /\ pc = "done"
    /\ Len(centerArrangement.tips) >= 2
    /\ Tipless >= 2
    /\ florets[Tipless + 1].tip = 1

(***************************************************************************)
(* Properties of the drawn document (SpecFlower).                          *)
(***************************************************************************)
\* the elements of defs with the id
DefsWith(id) == { e \in flower.defs : e.id = id }

\* the rules of the style tag for the class
RulesFor(class) == { e \in flower.styles : e.class = class }

\* the group, its gradient, its stroke rule and its shadow filter are those
\* of the fill; stops are the fill's color
StyledBy(g, fill) ==
    /\ \E e \in DefsWith(g.fill) : DefsWith(g.fill) = { e } /\ e.stops = fill.color
    /\ RulesFor(g.class) = { [class |-> g.class, strokeColor |-> fill.strokeColor,
                              strokeWidth |-> fill.strokeWidth] }
    /\ DefsWith(DefId(g.fill.prefix, "Shadow", g.id.index)) =
          IF fill.blur = 0 THEN {}
          ELSE { [id |-> DefId(g.fill.prefix, "Shadow", g.id.index), blur |-> fill.blur] }
    /\ (IF g.id.group = "centerBaseGroup" THEN g.childFilter ELSE g.filter) =
          IF fill.blur = 0 THEN NoId ELSE DefId(g.fill.prefix, "Shadow", g.id.index)

\* the group is the one drawSVG names with the suffix
Named(g, group, prefix, suffix) ==
    /\ g.id = GroupId(group, suffix)
    /\ g.fill = DefId(prefix, "Gradient", suffix)
    /\ g.class = DefId(prefix, "Styles", suffix)

\* the arrangement of the configuration whose groups have the suffix
ArrangementOfSuffix(k) == config.center.arrangement[ArrangementCount - k]

CenterOfSuffix(k) == createCenter(ArrangementOfSuffix(k).geometry, config.center.radius)

\* drawSVG was the last call on the object
JustDrawn == Built /\ flower.lastCall.name = "drawSVG"

\* C28: after drawSVG, which ends with applyStyles, on a flower with P petal
\* groups and A arrangements, the group with id suffix k holds the paths made
\* of config.petals[P-1-k], and the gradient, the stroke rule and the shadow
\* filter with suffix k are built from config.petals[P-1-k].fill; likewise
\* the base and tip groups of arrangement A-1-k; every group's fill names a
\* gradient that is in defs.
C28_StylesMeetGeometry ==
    JustDrawn =>
       /\ ~flower.lastCall.threw
       /\ Len(flower.drawn) = Groups + 2 * ArrangementCount
       /\ \A k \in 0..(Groups - 1) :
             /\ Named(flower.drawn[k + 1], "petalGroup", "petal", k)
             /\ flower.drawn[k + 1].children =
                   createPetals(config.petals[Groups - k], config.center.radius)
             /\ StyledBy(flower.drawn[k + 1], config.petals[Groups - k].fill)
       /\ \A k \in 0..(ArrangementCount - 1) :
             /\ Named(flower.drawn[Groups + 2 * k + 1], "centerBaseGroup", "centerBase", k)
             /\ Named(flower.drawn[Groups + 2 * k + 2], "centerTipGroup", "centerTip", k)
             /\ flower.drawn[Groups + 2 * k + 1].children = CenterOfSuffix(k).bases
             /\ flower.drawn[Groups + 2 * k + 2].children = CenterOfSuffix(k).tips
             /\ StyledBy(flower.drawn[Groups + 2 * k + 1], ArrangementOfSuffix(k).fill.base)
             /\ StyledBy(flower.drawn[Groups + 2 * k + 2], ArrangementOfSuffix(k).fill.tip)
       /\ \A s \in 1..Len(flower.drawn) : DefsWith(flower.drawn[s].fill) # {}

\* a flower drawn again after createElements, with two petal groups and two
\* arrangements whose fills differ, one of each with a shadow
C28_Witness ==
    /\ JustDrawn
    /\ flower.generation = 2
    /\ Groups = 2 /\ ArrangementCount = 2
    /\ config.petals[1].fill # config.petals[2].fill
    /\ config.center.arrangement[1].fill.base # config.center.arrangement[2].fill.base
    /\ flower.drawn[1].children # flower.drawn[2].children
    /\ flower.drawn[1].children # << >>
    /\ flower.drawn[1].filter # flower.drawn[2].filter
    /\ flower.drawn[3].childFilter # flower.drawn[5].childFilter
    /\ flower.drawn[4].children # << >>

(***************************************************************************)
(* Properties of the smoothing of a petal (SpecSmoothing).                 *)
(***************************************************************************)
\* the node has the position and the curveTo link it was created with
Untouched(node, created) ==
    /\ node.position = created.position
    /\ node.curveTo = created.curveTo

\* the nodes smoothed so far are as forEach leaves them, the others as created
AsInTurn(nodes, created, inTurn) ==
    /\ Len(nodes) = 8
    /\ \A j \in 1..8 :
          /\ Untouched(nodes[j], created[j])
          /\ j \in smoothedIndexes => nodes[j] = inTurn[j]
          /\ j \notin smoothedIndexes => nodes[j] = created[j]

\* C29: smoothing a petal does not depend on the order in which its nodes
\* are processed: ApplySmoothing writes the node's controlPoint1 and
\* controlPoint2 only and reads positions only, so the 8 nodes taken in any
\* order get the control points forEach gives them, and no position and no
\* curveTo link ever changes.
C29_SmoothingOrderFree ==
    pc \in {"smoothing", "done"} =>
       /\ \E created \in { createdPetal.nodes } :
          \E inTurn \in { smoothNodes(created, 1, petalGeometry.smoothing) } :
             AsInTurn(smoothingPetal.nodes, created, inTurn)
       /\ pc = "done" =>
             smoothingPetal =
                createPetal(petalGeometry, petalRadius(petalGeometry, Rat(radius, 1)), offset)

\* a node smoothed before its predecessor and its successor, and after
\* later nodes, its control points off its position
C29_Witness ==
    /\ pc = "smoothing"
    /\ smoothedIndexes = {3, 6, 8}
    /\ smoothingPetal.nodes[3].controlPoint1 # smoothingPetal.nodes[3].position
    /\ smoothingPetal.nodes[3].controlPoint2 # smoothingPetal.nodes[3].controlPoint1
    /\ offset # 0

(***************************************************************************)
(* Properties of the zoom (SpecZoom).                                      *)
(***************************************************************************)
\* C30: after any sequence of wheel events with any deltaY, interleaved
\* with any drawing, fitting or export calls, the zoomLevel of the flower is
\* within [0.1, 5].
C30_ZoomLevelBounded ==
    Built =>
       /\ NumLe(Rat(1, 10), flower.zoomLevel)
       /\ NumLe(flower.zoomLevel, Rat(5, 1))

\* a wheel event that would take the level below 0.1, on a fitted drawing
\* after MaxCalls drawing, fitting or export calls
C30_Witness ==
    /\ Built
    /\ flower.lastCall = Call("wheel", -10000, FALSE)
    /\ flower.zoomLevel = Rat(1, 10)
    /\ flower.viewBox = ViewBox("bBox", Rat(1, 10))
    /\ flower.calls = MaxCalls
====
